---------------------------- MODULE Spec2Model ----------------------------
(***************************************************************************)
(* A model of the FigChain Go client (figchain/go-client): the rule-based  *)
(* evaluator (pkg/evaluation), the in-memory store (pkg/store), the        *)
(* bootstrap strategies (pkg/bootstrap) and the client facade              *)
(* (pkg/client: New, GetFig, Watch, Close and the polling goroutine).       *)
(*                                                                         *)
(* Go strings that are hashed, parsed or compared bytewise (attribute      *)
(* values, condition values) are sequences of byte values; strings that    *)
(* are only compared for equality or concatenated (namespaces, keys,       *)
(* versions, operators, variable names) are TLA+ strings.                  *)
(***************************************************************************)
EXTENDS Integers, Sequences, FiniteSets, TLC

VARIABLES
    \* --- evaluator harness (pkg/evaluation)
    condition,          \* the model.Condition handed to matchesCondition
    attributes,         \* EvaluationContext.Attributes: a map variable -> value
    figFamily,          \* the model.FigFamily handed to Evaluate
    evalOut,            \* what the last evaluator call returned
    \* --- MemoryStore (pkg/store)
    data,               \* MemoryStore.data: a map makeKey(ns, key) -> FigFamily
    lastPut,            \* history: (namespace, key) -> the family last Put for it
    puts,               \* history: the number of Put calls made
    storeOut,           \* what the last Store call returned
    \* --- Client (pkg/client); its store is data
    cfg,                \* Client.cfg
    encryptionService,  \* Client.encryptionService: "nil" or "configured"
    namespaceCursors,   \* Client.namespaceCursors: a map namespace -> cursor
    watchers,           \* Client.watchers: a map key -> list of channels
    listeners,          \* Client.listeners: a map key -> list of callbacks
    pollStarted,        \* whether New has launched the pollLoop goroutine
    calls,              \* history: the data-source calls made by New, in order
    newOut,             \* what New returned
    getFigOut,          \* what the last GetFig call returned
    \* --- the synchronization engine, Watch and Close (pkg/client)
    mu,                 \* Client.mu: "free", or "poll" while pollUpdates holds it
    closeCh,            \* Client.closeCh: "open" or "closed"
    panicked,           \* whether a goroutine has panicked (the process is gone)
    closers,            \* per caller of Close: where the call stands
    pollPc,             \* where the pollLoop goroutine stands
    round,              \* pollUpdates: the cursor snapshot and the namespaces left
    current,            \* pollUpdates: the request in flight / response applied
    chans,              \* per Watch call: its channel, context and goroutine
    received,           \* history: what each subscriber has read, in order
    applied,            \* history: the families pollUpdates has Put, in order
    answeredAfterClose, \* history: a FetchUpdate has returned since Close was called
    serverCursors,      \* the cursors the server hands out in its update responses
    failedCursor,       \* history: per namespace, the cursor of its last request if that failed
    latestCursor,       \* history: per namespace, the last non-empty cursor received for it
    sinceRound,         \* history: what pollLoop has done since it last began a round
    \* --- bootstrap strategy harness (pkg/bootstrap)
    bootIn,             \* the strategy, the namespaces and the data sources of one Bootstrap call
    bootOut,            \* what the Bootstrap call returned
    \* --- encryption.Service (pkg/encryption)
    nskCache,           \* Service.nskCache: a map keyId -> unwrapped namespace key
    keysServed,         \* history: per namespace, the NSKs of the keys GetNamespaceKey returned for it
    decryptOut          \* the last Decrypt call: its arguments and what it returned

evalVars == <<condition, attributes, figFamily, evalOut>>

storeVars == <<lastPut, puts, storeOut>>

clientVars ==
    <<cfg, encryptionService, namespaceCursors, watchers, listeners,
      pollStarted, calls, newOut, getFigOut>>

syncVars ==
    <<mu, closeCh, panicked, closers, pollPc, round, current, chans, received, applied,
      answeredAfterClose, serverCursors, failedCursor, latestCursor, sinceRound>>

bootVars == <<bootIn, bootOut>>

cryptoVars == <<nskCache, keysServed, decryptOut>>

vars == <<evalVars, data, storeVars, clientVars, syncVars, bootVars, cryptoVars>>

(***************************************************************************)
(* Bounds of the model.                                                    *)
(***************************************************************************)
MaxValues == 2      \* longest Condition.Values list drawn
MaxRules  == 2      \* longest FigFamily.Rules list drawn
MaxConds  == 2      \* longest Rule.Conditions list drawn
MaxPuts   == 3      \* most Store.Put calls made on one store

NoValue == "none"

\* What the variables of the parts a specification leaves out are held at.
EvalIdle ==
    /\ condition = NoValue
    /\ attributes = NoValue
    /\ figFamily = NoValue
    /\ evalOut = NoValue

StoreIdle ==
    /\ lastPut = NoValue
    /\ puts = 0
    /\ storeOut = NoValue

ClientIdle ==
    /\ cfg = NoValue
    /\ encryptionService = NoValue
    /\ namespaceCursors = NoValue
    /\ watchers = NoValue
    /\ listeners = NoValue
    /\ pollStarted = FALSE
    /\ calls = NoValue
    /\ newOut = NoValue
    /\ getFigOut = NoValue

SyncIdle ==
    /\ mu = NoValue
    /\ closeCh = NoValue
    /\ panicked = FALSE
    /\ closers = NoValue
    /\ pollPc = NoValue
    /\ round = NoValue
    /\ current = NoValue
    /\ chans = NoValue
    /\ received = NoValue
    /\ applied = NoValue
    /\ answeredAfterClose = FALSE
    /\ serverCursors = NoValue
    /\ failedCursor = NoValue
    /\ latestCursor = NoValue
    /\ sinceRound = NoValue

BootIdle ==
    /\ bootIn = NoValue
    /\ bootOut = NoValue

CryptoIdle ==
    /\ nskCache = NoValue
    /\ keysServed = NoValue
    /\ decryptOut = NoValue

(***************************************************************************)
(* Byte strings.                                                           *)
(***************************************************************************)
S_empty  == << >>                          \* ""
S_0      == <<48>>                         \* "0"
S_10     == <<49, 48>>                     \* "10"
S_90     == <<57, 48>>                     \* "90"
S_100    == <<49, 48, 48>>                 \* "100"
S_150    == <<49, 53, 48>>                 \* "150"
S_neg1   == <<45, 49>>                     \* "-1"
S_a      == <<97>>                         \* "a"
S_user_a == <<117, 115, 101, 114, 45, 97>> \* "user-a"

\* The strings Condition.Values are drawn from.
StringPool ==
    {S_empty, S_0, S_10, S_90, S_100, S_150, S_a}

\* The strings attribute values are drawn from.
AttributePool ==
    {S_empty, S_10, S_90, S_100, S_neg1, S_a, S_user_a}

IsDigit(b) == b >= 48 /\ b <= 57

\* Sequences over S of length 0..n.
SeqsUpTo(S, n) == UNION {[1..k -> S] : k \in 0..n}

(***************************************************************************)
(* strconv.Atoi: an optional sign followed by one or more decimal digits.  *)
(* The strings drawn here are at most 6 bytes long, far from the int      *)
(* range, so the range error of Atoi cannot occur.                         *)
(***************************************************************************)
RECURSIVE DigitsValue(_, _)
DigitsValue(s, acc) ==
    IF s = << >> THEN acc
    ELSE DigitsValue(Tail(s), 10 * acc + (Head(s) - 48))

AllDigits(s) == Len(s) > 0 /\ \A i \in 1..Len(s) : IsDigit(s[i])

Atoi(s) ==
    LET signed == Len(s) > 0 /\ (s[1] = 43 \/ s[1] = 45)
        digits == IF signed THEN Tail(s) ELSE s
    IN  IF AllDigits(digits)
        THEN [ok  |-> TRUE,
              val |-> IF signed /\ s[1] = 45
                      THEN 0 - DigitsValue(digits, 0)
                      ELSE DigitsValue(digits, 0)]
        ELSE [ok |-> FALSE, val |-> 0]

(***************************************************************************)
(* strconv.ParseFloat(s, 64) on the strings drawn here.  None of them     *)
(* holds a '.', an exponent, a hex prefix, an underscore or spells         *)
(* inf/nan, so a string parses iff it is an optionally signed run of       *)
(* decimal digits, and its value is that integer (exact below 2^53).       *)
(***************************************************************************)
ParseFloat(s) == Atoi(s)

\* strings.Compare: bytewise lexicographic order, -1 / 0 / +1.
RECURSIVE StringsCompare(_, _)
StringsCompare(a, b) ==
    IF a = << >> /\ b = << >> THEN 0
    ELSE IF a = << >> THEN -1
    ELSE IF b = << >> THEN 1
    ELSE IF Head(a) < Head(b) THEN -1
    ELSE IF Head(a) > Head(b) THEN 1
    ELSE StringsCompare(Tail(a), Tail(b))

\* RuleBasedEvaluator.compare: numeric when both sides parse, else bytewise.
compare(a, b) ==
    LET f1 == ParseFloat(a)
        f2 == ParseFloat(b)
    IN  IF f1.ok /\ f2.ok
        THEN IF f1.val < f2.val THEN -1
             ELSE IF f1.val > f2.val THEN 1
             ELSE 0
        ELSE StringsCompare(a, b)

\* strings.Contains(s, substr)
StringsContains(s, substr) ==
    \E i \in 1..(Len(s) + 1) :
        /\ i + Len(substr) - 1 <= Len(s)
        /\ SubSeq(s, i, i + Len(substr) - 1) = substr

\* slices.Contains(values, v)
SlicesContains(values, v) == \E i \in 1..Len(values) : values[i] = v

(***************************************************************************)
(* getBucket: 32-bit FNV-1a of the key's bytes, modulo 100.  TLC's         *)
(* integers are 32-bit signed, so the uint32 hash is held as two 16-bit    *)
(* halves [hi, lo] and every step is reduced modulo 2^32 by hand.          *)
(***************************************************************************)
FNVOffsetHi == 33052        \* 0x811c: the high half of the offset basis 0x811c9dc5
FNVOffsetLo == 40389        \* 0x9dc5: its low half
FNVPrimeLo  == 403          \* 0x0193: the prime 0x01000193 is 2^24 + 0x193
BucketCount == 100          \* hash % 100

RECURSIVE Xor8(_, _, _)
Xor8(a, b, n) ==
    IF n = 0 THEN 0
    ELSE (((a % 2) + (b % 2)) % 2) + 2 * Xor8(a \div 2, b \div 2, n - 1)

\* hash ^= uint32(b): only the low byte of the low half changes.
HashXor(h, b) ==
    [hi |-> h.hi, lo |-> (h.lo \div 256) * 256 + Xor8(h.lo % 256, b, 8)]

\* hash *= 0x01000193 (mod 2^32), that is h * 2^24 + h * 0x193.
\* (h * 2^24) mod 2^32 is the low byte of h moved to the top byte.
HashMulPrime(h) ==
    LET lowProd == h.lo * FNVPrimeLo
        shifted == (h.lo % 256) * 256
    IN  [hi |-> (h.hi * FNVPrimeLo + (lowProd \div 65536) + shifted) % 65536,
         lo |-> lowProd % 65536]

\* A plausible slip: FNV-1 (multiply, then xor) instead of FNV-1a.
FNVStep_MulThenXor(h, b) == HashXor(HashMulPrime(h), b)

\* The loop body of getBucket: hash ^= key[i]; hash *= prime.
FNVStep(h, b) == HashMulPrime(HashXor(h, b))

RECURSIVE FNVLoop(_, _)
FNVLoop(h, key) ==
    IF key = << >> THEN h ELSE FNVLoop(FNVStep(h, Head(key)), Tail(key))

\* The uint32 hash getBucket has computed when its loop ends.
fnvHash(key) == FNVLoop([hi |-> FNVOffsetHi, lo |-> FNVOffsetLo], key)

\* hash % m, with hash = hi * 65536 + lo.
HashMod(h, m) == ((h.hi % m) * (65536 % m) + h.lo) % m

getBucket(key) == HashMod(fnvHash(key), BucketCount)

(***************************************************************************)
(* matchesCondition.  attrs is the Attributes map: a function whose domain *)
(* is the set of variables present.                                        *)
(***************************************************************************)
\* return e.getBucket(val) < threshold
SplitMatches(val, threshold) == getBucket(val) < threshold

\* The switch on condition.Operator, reached when the variable is present.
matchesOperator(cond, val) ==
    LET values == cond.Values
    IN  CASE cond.Operator = "EQUALS" ->
                IF Len(values) > 0 THEN val = values[1] ELSE FALSE
        []   cond.Operator = "NOT_EQUALS" ->
                IF Len(values) > 0 THEN val # values[1] ELSE FALSE
        []   cond.Operator = "IN" -> SlicesContains(values, val)
        []   cond.Operator = "NOT_IN" -> ~SlicesContains(values, val)
        []   cond.Operator = "CONTAINS" ->
                IF Len(values) > 0 THEN StringsContains(val, values[1]) ELSE FALSE
        []   cond.Operator = "GREATER_THAN" ->
                IF Len(values) # 1 THEN FALSE ELSE compare(val, values[1]) > 0
        []   cond.Operator = "LESS_THAN" ->
                IF Len(values) # 1 THEN FALSE ELSE compare(val, values[1]) < 0
        []   cond.Operator = "SPLIT" ->
                IF Len(values) = 0 THEN FALSE
                ELSE LET threshold == Atoi(values[1])
                     IN  IF ~threshold.ok THEN FALSE
                         ELSE SplitMatches(val, threshold.val)
        []   OTHER -> FALSE

\* A plausible slip (an earlier evaluator did this): the negated operators
\* match when the variable is absent.
matchesCondition_AbsentNegated(cond, attrs) ==
    IF cond.Variable \notin DOMAIN attrs
    THEN cond.Operator \in {"NOT_EQUALS", "NOT_IN"}
    ELSE matchesOperator(cond, attrs[cond.Variable])

matchesCondition(cond, attrs) ==
    IF cond.Variable \notin DOMAIN attrs
    THEN FALSE
    ELSE matchesOperator(cond, attrs[cond.Variable])

\* matchesRule: the loop over rule.Conditions, from condition i on.
RECURSIVE matchesRuleFrom(_, _, _)
matchesRuleFrom(rule, attrs, i) ==
    IF i > Len(rule.Conditions) THEN TRUE
    ELSE IF ~matchesCondition(rule.Conditions[i], attrs) THEN FALSE
    ELSE matchesRuleFrom(rule, attrs, i + 1)

matchesRule(rule, attrs) == matchesRuleFrom(rule, attrs, 1)

(***************************************************************************)
(* Evaluate and findFigByVersion.  A result is [fig, err]: fig is << >>    *)
(* (nil) or <<f>>, err is NoError (nil) or the error returned.             *)
(***************************************************************************)
NoError == "nil"
ErrFigVersionMissing == "fig version not found"

RECURSIVE findFigFrom(_, _, _)
findFigFrom(figs, version, i) ==
    IF i > Len(figs) THEN [fig |-> << >>, err |-> ErrFigVersionMissing]
    ELSE IF figs[i].Version = version THEN [fig |-> <<figs[i]>>, err |-> NoError]
    ELSE findFigFrom(figs, version, i + 1)

findFigByVersion(ff, version) == findFigFrom(ff.Figs, version, 1)

\* Step 2 of Evaluate: the default version (<< >> is the nil pointer).
evaluateDefault(ff) ==
    IF ff.DefaultVersion # << >>
    THEN findFigByVersion(ff, ff.DefaultVersion[1])
    ELSE [fig |-> << >>, err |-> NoError]

\* A plausible slip: a rule whose target version is missing is skipped.
RECURSIVE evaluateRulesFrom_SkipMissing(_, _, _)
evaluateRulesFrom_SkipMissing(ff, attrs, i) ==
    IF i > Len(ff.Rules) THEN evaluateDefault(ff)
    ELSE IF /\ matchesRule(ff.Rules[i], attrs)
            /\ findFigByVersion(ff, ff.Rules[i].TargetVersion).err = NoError
         THEN findFigByVersion(ff, ff.Rules[i].TargetVersion)
         ELSE evaluateRulesFrom_SkipMissing(ff, attrs, i + 1)

\* A plausible slip: the last matching rule wins.
RECURSIVE evaluateRulesFrom_LastWins(_, _, _)
evaluateRulesFrom_LastWins(ff, attrs, i) ==
    LET n == Len(ff.Rules) + 1 - i
    IN  IF n < 1 THEN evaluateDefault(ff)
        ELSE IF matchesRule(ff.Rules[n], attrs)
             THEN findFigByVersion(ff, ff.Rules[n].TargetVersion)
             ELSE evaluateRulesFrom_LastWins(ff, attrs, i + 1)

\* Step 1 of Evaluate: the loop over figFamily.Rules, from rule i on.
RECURSIVE evaluateRulesFrom(_, _, _)
evaluateRulesFrom(ff, attrs, i) ==
    IF i > Len(ff.Rules) THEN evaluateDefault(ff)
    ELSE IF matchesRule(ff.Rules[i], attrs)
         THEN findFigByVersion(ff, ff.Rules[i].TargetVersion)
         ELSE evaluateRulesFrom(ff, attrs, i + 1)

Evaluate_SkipMissing(ff, attrs) == evaluateRulesFrom_SkipMissing(ff, attrs, 1)

Evaluate_LastWins(ff, attrs) == evaluateRulesFrom_LastWins(ff, attrs, 1)

Evaluate(ff, attrs) == evaluateRulesFrom(ff, attrs, 1)

(***************************************************************************)
(* Model values.                                                           *)
(***************************************************************************)
\* model.Fig
Fig(version, payload, encrypted) ==
    [Version |-> version, Payload |-> payload, IsEncrypted |-> encrypted]

\* model.FigFamily; DefaultVersion is << >> (nil) or <<version>>.
FigFamily(ns, key, figs, rules, default) ==
    [Definition     |-> [Namespace |-> ns, Key |-> key],
     Figs           |-> figs,
     Rules          |-> rules,
     DefaultVersion |-> default]

\* model.Condition
Condition(variable, operator, values) ==
    [Variable |-> variable, Operator |-> operator, Values |-> values]

\* model.Rule
Rule(conditions, target) ==
    [Conditions |-> conditions, TargetVersion |-> target]

\* The attribute maps over the variables of V with values in S.
AttributeMaps(V, S) == UNION {[D -> S] : D \in SUBSET V}

(***************************************************************************)
(* The evaluator harness: matchesCondition and getBucket on drawn inputs.  *)
(***************************************************************************)
Operators ==
    {"EQUALS", "NOT_EQUALS", "IN", "NOT_IN", "CONTAINS",
     "GREATER_THAN", "LESS_THAN", "SPLIT", "REGEX"}      \* REGEX: unknown

ConditionUniverse ==
    {Condition(v, op, vals) :
        v \in {"device_id", "user_id"},
        op \in Operators,
        vals \in SeqsUpTo(StringPool, MaxValues)}

\* Only device_id is ever supplied; user_id is absent from every map.
CondAttributes == AttributeMaps({"device_id"}, AttributePool)

InitCond ==
    /\ condition \in ConditionUniverse
    /\ attributes \in CondAttributes
    /\ figFamily = NoValue
    /\ evalOut = [op |-> "none"]
    /\ data = NoValue
    /\ StoreIdle
    /\ ClientIdle
    /\ SyncIdle
    /\ BootIdle
    /\ CryptoIdle

MatchesConditionCall ==
    /\ evalOut.op = "none"
    /\ evalOut' = [op |-> "matchesCondition",
                   result |-> matchesCondition(condition, attributes)]
    /\ UNCHANGED <<syncVars, bootVars, cryptoVars, condition, attributes, figFamily, data, storeVars, clientVars>>

GetBucketCall ==
    /\ evalOut.op = "none"
    /\ "device_id" \in DOMAIN attributes
    /\ evalOut' = [op |-> "getBucket",
                   key |-> attributes["device_id"],
                   hash |-> fnvHash(attributes["device_id"]),
                   result |-> getBucket(attributes["device_id"])]
    /\ UNCHANGED <<syncVars, bootVars, cryptoVars, condition, attributes, figFamily, data, storeVars, clientVars>>

NextCond == MatchesConditionCall \/ GetBucketCall

SpecCond == InitCond /\ [][NextCond]_vars

(***************************************************************************)
(* The evaluator harness: Evaluate on drawn families and attributes.       *)
(***************************************************************************)
S_123 == <<49, 50, 51>>     \* "123"
S_456 == <<52, 53, 54>>     \* "456"

EvalConditions ==
    {Condition("user_id", "EQUALS", <<S_123>>),
     Condition("user_id", "IN", <<S_123, S_456>>)}

RuleUniverse ==
    {Rule(cs, t) : cs \in SeqsUpTo(EvalConditions, MaxConds), t \in {"v1", "v2"}}

\* The second list has no fig of version v2, and two of version v1.
FigsUniverse ==
    {<<Fig("v1", "a", FALSE), Fig("v2", "b", FALSE)>>,
     <<Fig("v1", "a", FALSE), Fig("v1", "c", FALSE)>>}

FamilyUniverse ==
    {FigFamily("ns", "k", figs, rules, default) :
        figs \in FigsUniverse,
        rules \in SeqsUpTo(RuleUniverse, MaxRules),
        default \in {<< >>, <<"v1">>, <<"v2">>}}

EvalAttributes == AttributeMaps({"user_id"}, {S_123, S_456})

InitEval ==
    /\ figFamily \in FamilyUniverse
    /\ attributes \in EvalAttributes
    /\ condition = NoValue
    /\ evalOut = [op |-> "none"]
    /\ data = NoValue
    /\ StoreIdle
    /\ ClientIdle
    /\ SyncIdle
    /\ BootIdle
    /\ CryptoIdle

EvaluateCall ==
    /\ evalOut.op = "none"
    /\ evalOut' = [op |-> "Evaluate", result |-> Evaluate(figFamily, attributes)]
    /\ UNCHANGED <<syncVars, bootVars, cryptoVars, condition, attributes, figFamily, data, storeVars, clientVars>>

NextEval == EvaluateCall

SpecEval == InitEval /\ [][NextEval]_vars


(***************************************************************************)
(* Properties of Evaluate (checked under SpecEval).                        *)
(***************************************************************************)
\* The rules of ff all of whose conditions match attrs, by index.
MatchingRules(ff, attrs) ==
    {i \in 1..Len(ff.Rules) :
        \A j \in 1..Len(ff.Rules[i].Conditions) :
            matchesCondition(ff.Rules[i].Conditions[j], attrs)}

Min(S) == CHOOSE x \in S : \A y \in S : x <= y

\* The figs of ff that carry version v.
FigsWithVersion(ff, v) == {ff.Figs[i] : i \in {j \in 1..Len(ff.Figs) : ff.Figs[j].Version = v}}

Evaluated == evalOut.op = "Evaluate"

\* The family and the contexts of the specification's first end-to-end scenario.
ExampleFamily ==
    FigFamily("ns", "k",
              <<Fig("v1", "a", FALSE), Fig("v2", "b", FALSE)>>,
              <<Rule(<<Condition("user_id", "EQUALS", <<S_123>>)>>, "v2")>>,
              <<"v1">>)

\* C1: Evaluate returns the fig whose version is the targetVersion of the
\* first rule, in stored order, all of whose conditions match (later matching
\* rules are ignored); with no matching rule it returns the default version's
\* fig when defaultVersion is set, and no fig and no error when it is unset.
\* On the example family, user_id 123 gives v2, user_id 456 and the empty
\* context give v1.
C1_EvaluateFirstMatchThenDefault ==
    Evaluated =>
        LET M == MatchingRules(figFamily, attributes)
            r == evalOut.result
        IN  /\ (M # {} /\ FigsWithVersion(figFamily, figFamily.Rules[Min(M)].TargetVersion) # {}) =>
                   /\ r.err = NoError
                   /\ Len(r.fig) = 1
                   /\ r.fig[1] \in FigsWithVersion(figFamily, figFamily.Rules[Min(M)].TargetVersion)
            /\ (M = {} /\ figFamily.DefaultVersion # << >>
                       /\ FigsWithVersion(figFamily, figFamily.DefaultVersion[1]) # {}) =>
                   /\ r.err = NoError
                   /\ Len(r.fig) = 1
                   /\ r.fig[1] \in FigsWithVersion(figFamily, figFamily.DefaultVersion[1])
            /\ (M = {} /\ figFamily.DefaultVersion = << >>) =>
                   r = [fig |-> << >>, err |-> NoError]
            /\ figFamily = ExampleFamily =>
                   /\ r.err = NoError
                   /\ Len(r.fig) = 1
                   /\ r.fig[1].Version =
                        IF "user_id" \in DOMAIN attributes /\ attributes["user_id"] = S_123
                        THEN "v2" ELSE "v1"

\* Two rules match, the first targets v1 and a later one v2, and v1 came back.
C1_Witness ==
    /\ Evaluated
    /\ \E i, j \in MatchingRules(figFamily, attributes) :
          /\ i < j
          /\ i = Min(MatchingRules(figFamily, attributes))
          /\ figFamily.Rules[i].TargetVersion = "v1"
          /\ figFamily.Rules[j].TargetVersion = "v2"
    /\ FigsWithVersion(figFamily, "v2") # {}
    /\ evalOut.result.err = NoError
    /\ evalOut.result.fig[1].Version = "v1"

\* C2: when the targetVersion of the first matching rule (or, with no
\* matching rule, the defaultVersion) is the version of no fig of the family,
\* Evaluate returns an error and no fig; it does not fall through to a later
\* rule or to the default.
C2_MissingVersionIsAnError ==
    Evaluated =>
        LET M == MatchingRules(figFamily, attributes)
            selected == IF M # {} THEN <<figFamily.Rules[Min(M)].TargetVersion>>
                        ELSE figFamily.DefaultVersion
        IN  (selected # << >> /\ FigsWithVersion(figFamily, selected[1]) = {}) =>
                evalOut.result = [fig |-> << >>, err |-> ErrFigVersionMissing]

\* The first matching rule targets v2, which the family has no fig for, while
\* a later matching rule and the default both name v1, which exists: still
\* an error.
C2_Witness ==
    /\ Evaluated
    /\ \E i, j \in MatchingRules(figFamily, attributes) :
          /\ i < j
          /\ i = Min(MatchingRules(figFamily, attributes))
          /\ figFamily.Rules[i].TargetVersion = "v2"
          /\ figFamily.Rules[j].TargetVersion = "v1"
    /\ FigsWithVersion(figFamily, "v2") = {}
    /\ FigsWithVersion(figFamily, "v1") # {}
    /\ figFamily.DefaultVersion = <<"v1">>
    /\ evalOut.result.err = ErrFigVersionMissing
    /\ evalOut.result.fig = << >>

(***************************************************************************)
(* Properties of matchesCondition and getBucket (checked under SpecCond).  *)
(***************************************************************************)
Matched == evalOut.op = "matchesCondition"

VariablePresent == condition.Variable \in DOMAIN attributes

\* C3: a condition whose variable is absent from the attributes is false
\* for every operator and every list of values.
C3_AbsentVariableNeverMatches ==
    (Matched /\ ~VariablePresent) => evalOut.result = FALSE

\* NOT_IN on user_id, with only device_id supplied, was evaluated to false.
C3_Witness ==
    /\ Matched
    /\ ~VariablePresent
    /\ attributes # << >>
    /\ condition.Operator = "NOT_IN"
    /\ condition.Values # << >>
    /\ evalOut.result = FALSE

\* C4: a SPLIT condition on a present variable matches iff values is
\* non-empty, values[0] parses as an integer T with 0 <= T <= 100 and
\* bucket(val) < T.
C4_SplitIffThresholdInRange ==
    (Matched /\ VariablePresent /\ condition.Operator = "SPLIT") =>
        (evalOut.result = TRUE <=>
            /\ Len(condition.Values) >= 1
            /\ Atoi(condition.Values[1]).ok
            /\ Atoi(condition.Values[1]).val >= 0
            /\ Atoi(condition.Values[1]).val <= 100
            /\ getBucket(attributes[condition.Variable]) < Atoi(condition.Values[1]).val)

\* FNV-1a (32 bit) of the strings drawn, computed outside the model.
ReferenceFNV1a(key) ==
    CASE key = S_empty  -> [hi |-> 33052, lo |-> 40389]     \* 0x811c9dc5
    []   key = S_0      -> [hi |-> 13580, lo |-> 43183]     \* 0x350ca8af
    []   key = S_10     -> [hi |-> 7147,  lo |-> 10820]     \* 0x1beb2a44
    []   key = S_90     -> [hi |-> 3070,  lo |-> 39116]     \* 0x0bfe98cc
    []   key = S_100    -> [hi |-> 26419, lo |-> 54428]     \* 0x6733d49c
    []   key = S_150    -> [hi |-> 62764, lo |-> 25953]     \* 0xf52c6561
    []   key = S_neg1   -> [hi |-> 5325,  lo |-> 2603]      \* 0x14cd0a2b
    []   key = S_a      -> [hi |-> 58380, lo |-> 10540]     \* 0xe40c292c
    []   key = S_user_a -> [hi |-> 9555,  lo |-> 50436]     \* 0x2553c504

Bucketed == evalOut.op = "getBucket"

\* C5 as stated: bucket("") = 53 and bucket("user-a") = 86.
C5_OriginalTestVectors ==
    Bucketed =>
        /\ evalOut.key = S_empty => evalOut.result = 53
        /\ evalOut.key = S_user_a => evalOut.result = 86

\* C5 (amended): bucket(key) is the 32-bit FNV-1a hash of the key's bytes
\* (offset basis 0x811c9dc5, prime 0x01000193, modulo 2^32) reduced modulo
\* 100; bucket("") = 61 and bucket("user-a") = 16, so SPLIT on "user-a" is
\* false with threshold 10 and true with threshold 90.
C5_BucketIsFNV1aMod100 ==
    /\ Bucketed =>
          /\ evalOut.hash = ReferenceFNV1a(evalOut.key)
          /\ evalOut.result \in 0..99
          /\ evalOut.result = HashMod(ReferenceFNV1a(evalOut.key), 100)
          /\ evalOut.key = S_empty => evalOut.result = 61
          /\ evalOut.key = S_user_a => evalOut.result = 16
    /\ (/\ Matched
        /\ VariablePresent
        /\ condition.Operator = "SPLIT"
        /\ attributes[condition.Variable] = S_user_a) =>
          /\ condition.Values = <<S_10>> => evalOut.result = FALSE
          /\ condition.Values = <<S_90>> => evalOut.result = TRUE

\* getBucket ran on "user-a".
C5_Witness ==
    /\ Bucketed
    /\ evalOut.key = S_user_a
    /\ evalOut.result = 16


(***************************************************************************)
(* MemoryStore (pkg/store).  A Go map is a function whose domain is the    *)
(* set of keys present; << >> is the empty map.                            *)
(***************************************************************************)
EmptyMap == << >>

\* m[k] = v
MapPut(m, k, v) == [x \in (DOMAIN m) \cup {k} |-> IF x = k THEN v ELSE m[x]]

makeKey(namespace, key) == namespace \o ":" \o key

\* A Put that keeps what the store already holds under the key.
Put_KeepFirst(d, ff) ==
    LET k == makeKey(ff.Definition.Namespace, ff.Definition.Key)
    IN  IF k \in DOMAIN d THEN d ELSE MapPut(d, k, ff)

Put(d, ff) == MapPut(d, makeKey(ff.Definition.Namespace, ff.Definition.Key), ff)

\* (nil, false) is [family |-> << >>, ok |-> FALSE]
Get(d, namespace, key) ==
    LET k == makeKey(namespace, key)
    IN  IF k \in DOMAIN d
        THEN [family |-> <<d[k]>>, ok |-> TRUE]
        ELSE [family |-> << >>, ok |-> FALSE]

\* GetAll ranges over the map, whose iteration order Go leaves unspecified:
\* every ordering of the values is a possible result.
GetAll(d) ==
    LET n == Cardinality(DOMAIN d)
        orders == {o \in [1..n -> DOMAIN d] : \A i, j \in 1..n : o[i] = o[j] => i = j}
    IN  {[i \in 1..n |-> d[o[i]]] : o \in orders}

(***************************************************************************)
(* The Store on its own: Put, Get and GetAll in any order.                 *)
(***************************************************************************)
StoreNamespaces == {"a", "a:b"}
StoreKeys == {"c", "b:c"}

\* Two families per (namespace, key), told apart by their default version.
StoreFamilies ==
    {FigFamily(ns, key, <<Fig("v1", "p1", FALSE), Fig("v2", "p2", FALSE)>>, << >>, <<v>>) :
        ns \in StoreNamespaces, key \in StoreKeys, v \in {"v1", "v2"}}

InitStore ==
    /\ data = EmptyMap
    /\ lastPut = EmptyMap
    /\ puts = 0
    /\ storeOut = [op |-> "none"]
    /\ EvalIdle
    /\ ClientIdle
    /\ SyncIdle
    /\ BootIdle
    /\ CryptoIdle

PutCall ==
    /\ puts < MaxPuts
    /\ \E ff \in StoreFamilies :
          /\ data' = Put(data, ff)
          /\ lastPut' = MapPut(lastPut, <<ff.Definition.Namespace, ff.Definition.Key>>, ff)
    /\ puts' = puts + 1
    /\ storeOut' = [op |-> "Put"]
    /\ UNCHANGED <<syncVars, bootVars, cryptoVars, evalVars, clientVars>>

GetCall ==
    /\ \E ns \in StoreNamespaces, key \in StoreKeys :
          storeOut' = [op |-> "Get", namespace |-> ns, key |-> key,
                       result |-> Get(data, ns, key)]
    /\ UNCHANGED <<syncVars, bootVars, cryptoVars, data, lastPut, puts, evalVars, clientVars>>

GetAllCall ==
    /\ \E all \in GetAll(data) :
          storeOut' = [op |-> "GetAll", result |-> all]
    /\ UNCHANGED <<syncVars, bootVars, cryptoVars, data, lastPut, puts, evalVars, clientVars>>

NextStore == PutCall \/ GetCall \/ GetAllCall

SpecStore == InitStore /\ [][NextStore]_vars

\* C6: after any sequence of Puts, Get(namespace, key) returns present with
\* the family most recently Put for that (namespace, key), returns
\* not-present iff no family was ever Put for that pair, and GetAll returns
\* exactly one family per distinct (namespace, key) that was Put.
C6_GetReturnsLastPut ==
    /\ storeOut.op = "Get" =>
          LET pair == <<storeOut.namespace, storeOut.key>>
          IN  /\ storeOut.result.ok <=> pair \in DOMAIN lastPut
              /\ pair \in DOMAIN lastPut => storeOut.result.family = <<lastPut[pair]>>
    /\ storeOut.op = "GetAll" =>
          /\ Len(storeOut.result) = Cardinality(DOMAIN lastPut)
          /\ {storeOut.result[i] : i \in 1..Len(storeOut.result)}
                = {lastPut[pair] : pair \in DOMAIN lastPut}


(***************************************************************************)
(* Bootstrap strategies (pkg/bootstrap).  The data sources are the         *)
(* environment env of one run of New:                                      *)
(*   env.initial[ns]  what Transport.FetchInitial answers for ns,          *)
(*   env.update[ns]   what Transport.FetchUpdate answers for ns,           *)
(*   env.backup       what VaultService.LoadBackup returns.                *)
(* A strategy returns [err, FigFamilies, Cursors] and, as history, the     *)
(* list of data-source calls it made.                                      *)
(***************************************************************************)
ErrTransport == "transport error"
ErrLoadBackup == "load backup failed"
ErrFetchInitial == "failed to fetch initial data"
ErrFallback == "server bootstrap failed; fallback to vault also failed"

BootResult(err, families, cursors, log) ==
    [err |-> err, FigFamilies |-> families, Cursors |-> cursors, calls |-> log]

Call(name, namespace, cursor, ok) ==
    [call |-> name, namespace |-> namespace, cursor |-> cursor, ok |-> ok]

Range(seq) == {seq[i] : i \in 1..Len(seq)}

\* ServerStrategy.Bootstrap: the loop over namespaces, from namespace i on.
RECURSIVE serverBootstrapFrom(_, _, _, _, _, _)
serverBootstrapFrom(namespaces, env, i, families, cursors, log) ==
    IF i > Len(namespaces) THEN BootResult(NoError, families, cursors, log)
    ELSE LET ns == namespaces[i]
             resp == env.initial[ns]
             log2 == Append(log, Call("FetchInitial", ns, "", resp.err = NoError))
         IN  IF resp.err # NoError
             THEN BootResult(ErrFetchInitial, << >>, EmptyMap, log2)
             ELSE serverBootstrapFrom(namespaces, env, i + 1,
                      families \o resp.FigFamilies,
                      IF resp.Cursor # "" THEN MapPut(cursors, ns, resp.Cursor) ELSE cursors,
                      log2)

ServerStrategy_Bootstrap(namespaces, env) ==
    serverBootstrapFrom(namespaces, env, 1, << >>, EmptyMap, << >>)

\* cursors[ns] = token for every ns of the list, in order
RECURSIVE putAll(_, _, _)
putAll(cursors, namespaces, token) ==
    IF namespaces = << >> THEN cursors
    ELSE putAll(MapPut(cursors, Head(namespaces), token), Tail(namespaces), token)

\* for each item: if its namespace has no cursor yet, cursors[ns] = token
RECURSIVE putMissing(_, _, _)
putMissing(cursors, items, token) ==
    IF items = << >> THEN cursors
    ELSE LET ns == Head(items).Definition.Namespace
         IN  putMissing(IF ns \in DOMAIN cursors THEN cursors ELSE MapPut(cursors, ns, token),
                        Tail(items), token)

\* A vault strategy that returns every item of the backup.
VaultStrategy_Bootstrap_Unfiltered(namespaces, env) ==
    LET payload == env.backup
        log == <<Call("LoadBackup", "", "", payload.err = NoError)>>
    IN  IF payload.err # NoError
        THEN BootResult(payload.err, << >>, EmptyMap, log)
        ELSE LET c1 == IF payload.SyncToken # ""
                       THEN putAll(EmptyMap, namespaces, payload.SyncToken)
                       ELSE EmptyMap
             IN  BootResult(NoError, payload.Items,
                            putMissing(c1, payload.Items, payload.SyncToken), log)

VaultStrategy_Bootstrap(namespaces, env) ==
    LET payload == env.backup
        log == <<Call("LoadBackup", "", "", payload.err = NoError)>>
    IN  IF payload.err # NoError
        THEN BootResult(payload.err, << >>, EmptyMap, log)
        ELSE LET requested(item) == item.Definition.Namespace \in Range(namespaces)
                 c1 == IF payload.SyncToken # ""
                       THEN putAll(EmptyMap, namespaces, payload.SyncToken)
                       ELSE EmptyMap
             IN  BootResult(NoError,
                            SelectSeq(payload.Items, requested),
                            putMissing(c1, payload.Items, payload.SyncToken),
                            log)

FallbackStrategy_Bootstrap(namespaces, env) ==
    LET server == ServerStrategy_Bootstrap(namespaces, env)
        vault == VaultStrategy_Bootstrap(namespaces, env)
    IN  IF server.err = NoError THEN server
        ELSE IF vault.err # NoError
             THEN BootResult(ErrFallback, << >>, EmptyMap, server.calls \o vault.calls)
             ELSE BootResult(NoError, vault.FigFamilies, vault.Cursors,
                             server.calls \o vault.calls)

\* for k, v := range src { dst[k] = v }
MapCopy(dst, src) ==
    [k \in (DOMAIN dst) \cup (DOMAIN src) |-> IF k \in DOMAIN src THEN src[k] ELSE dst[k]]

\* Step 4 of HybridStrategy.Bootstrap: the catch-up loop, from namespace i on.
RECURSIVE hybridCatchUpFrom(_, _, _, _, _, _, _)
hybridCatchUpFrom(namespaces, env, missing, i, families, cursors, log) ==
    IF i > Len(namespaces) THEN BootResult(NoError, families, cursors, log)
    ELSE LET ns == namespaces[i]
         IN  IF ns \in DOMAIN cursors /\ ns \notin Range(missing)
             THEN LET resp == env.update[ns]
                      log2 == Append(log, Call("FetchUpdate", ns, cursors[ns], resp.err = NoError))
                  IN  IF resp.err # NoError
                      THEN hybridCatchUpFrom(namespaces, env, missing, i + 1, families, cursors, log2)
                      ELSE hybridCatchUpFrom(namespaces, env, missing, i + 1,
                               families \o resp.FigFamilies,
                               IF resp.Cursor # "" THEN MapPut(cursors, ns, resp.Cursor) ELSE cursors,
                               log2)
             ELSE hybridCatchUpFrom(namespaces, env, missing, i + 1, families, cursors, log)

\* A hybrid strategy that asks the server for every requested namespace.
HybridStrategy_Bootstrap_ServerForAll(namespaces, env) ==
    LET vault == VaultStrategy_Bootstrap(namespaces, env)
        vaultFamilies == IF vault.err # NoError THEN << >> ELSE vault.FigFamilies
        vaultCursors == IF vault.err # NoError THEN EmptyMap ELSE vault.Cursors
        absent(ns) == ns \notin DOMAIN vaultCursors
        missing == SelectSeq(namespaces, absent)
        server == ServerStrategy_Bootstrap(namespaces, env)
        fetched == Len(namespaces) > 0 /\ server.err = NoError
    IN  hybridCatchUpFrom(namespaces, env, missing, 1,
            IF fetched THEN vaultFamilies \o server.FigFamilies ELSE vaultFamilies,
            IF fetched THEN MapCopy(vaultCursors, server.Cursors) ELSE vaultCursors,
            vault.calls \o (IF Len(namespaces) > 0 THEN server.calls ELSE << >>))

\* A hybrid strategy that gives up on a failure: it returns the error of
\* the server strategy or of a catch-up request instead of a result.
HybridStrategy_Bootstrap_FailFast(namespaces, env) ==
    LET vault == VaultStrategy_Bootstrap(namespaces, env)
        vaultFamilies == IF vault.err # NoError THEN << >> ELSE vault.FigFamilies
        vaultCursors == IF vault.err # NoError THEN EmptyMap ELSE vault.Cursors
        absent(ns) == ns \notin DOMAIN vaultCursors
        missing == SelectSeq(namespaces, absent)
        server == ServerStrategy_Bootstrap(missing, env)
        fetched == Len(missing) > 0 /\ server.err = NoError
        log == vault.calls \o (IF Len(missing) > 0 THEN server.calls ELSE << >>)
        caughtUp == hybridCatchUpFrom(namespaces, env, missing, 1,
                        IF fetched THEN vaultFamilies \o server.FigFamilies ELSE vaultFamilies,
                        IF fetched THEN MapCopy(vaultCursors, server.Cursors) ELSE vaultCursors,
                        log)
        failed(c) == c.call = "FetchUpdate" /\ ~c.ok
    IN  IF Len(missing) > 0 /\ server.err # NoError
        THEN BootResult(server.err, << >>, EmptyMap, log)
        ELSE IF SelectSeq(caughtUp.calls, failed) # << >>
             THEN BootResult(ErrTransport, << >>, EmptyMap, caughtUp.calls)
             ELSE caughtUp

\* A hybrid strategy that merges the catch-up families before those of the
\* vault and of the server strategy.
HybridStrategy_Bootstrap_VaultLast(namespaces, env) ==
    LET vault == VaultStrategy_Bootstrap(namespaces, env)
        vaultFamilies == IF vault.err # NoError THEN << >> ELSE vault.FigFamilies
        vaultCursors == IF vault.err # NoError THEN EmptyMap ELSE vault.Cursors
        absent(ns) == ns \notin DOMAIN vaultCursors
        missing == SelectSeq(namespaces, absent)
        server == ServerStrategy_Bootstrap(missing, env)
        fetched == Len(missing) > 0 /\ server.err = NoError
        caughtUp == hybridCatchUpFrom(namespaces, env, missing, 1, << >>,
                        IF fetched THEN MapCopy(vaultCursors, server.Cursors) ELSE vaultCursors,
                        vault.calls \o (IF Len(missing) > 0 THEN server.calls ELSE << >>))
    IN  [caughtUp EXCEPT !.FigFamilies =
            @ \o (IF fetched THEN vaultFamilies \o server.FigFamilies ELSE vaultFamilies)]

HybridStrategy_Bootstrap(namespaces, env) ==
    LET vault == VaultStrategy_Bootstrap(namespaces, env)
        \* a vault error is treated as "no data from vault": vaultResult = &Result{}
        vaultFamilies == IF vault.err # NoError THEN << >> ELSE vault.FigFamilies
        vaultCursors == IF vault.err # NoError THEN EmptyMap ELSE vault.Cursors
        absent(ns) == ns \notin DOMAIN vaultCursors
        missing == SelectSeq(namespaces, absent)
        server == ServerStrategy_Bootstrap(missing, env)
        fetched == Len(missing) > 0 /\ server.err = NoError
    IN  hybridCatchUpFrom(namespaces, env, missing, 1,
            IF fetched THEN vaultFamilies \o server.FigFamilies ELSE vaultFamilies,
            IF fetched THEN MapCopy(vaultCursors, server.Cursors) ELSE vaultCursors,
            vault.calls \o (IF Len(missing) > 0 THEN server.calls ELSE << >>))

(***************************************************************************)
(* client.New.  The files and services New touches besides the data        *)
(* sources are part of env: env.authKeyLoads (util.LoadRSAPrivateKey),     *)
(* env.encKeyLoads (encryption.NewService), env.vaultServiceOk             *)
(* (vault.NewDefaultVaultService).                                         *)
(***************************************************************************)
ErrBaseURLRequired == "BaseURL is required"
ErrEnvironmentIDRequired == "EnvironmentID is required"
ErrAuthRequired == "an authentication method must be configured"
ErrSingleNamespace == "private key authentication can only be used with a single namespace"
ErrLoadAuthKey == "failed to load auth private key"
ErrEncryptionService == "failed to create encryption service"
ErrVaultService == "failed to create vault service"
ErrBootstrapFailed == "bootstrap failed"

\* The validation that skips the authentication check.
validateConfig_NoAuthCheck(c) ==
    IF c.BaseURL = "" THEN ErrBaseURLRequired
    ELSE IF c.EnvironmentID = "" THEN ErrEnvironmentIDRequired
    ELSE NoError

\* The three checks New makes before it builds anything.
validateConfig(c) ==
    IF c.BaseURL = "" THEN ErrBaseURLRequired
    ELSE IF c.EnvironmentID = "" THEN ErrEnvironmentIDRequired
    ELSE IF c.ClientSecret = "" /\ c.AuthPrivateKeyPath = "" THEN ErrAuthRequired
    ELSE NoError

\* Which strategy New selects: "server", "vault", "hybrid" or "fallback".
selectStrategy(c) ==
    IF c.VaultEnabled
    THEN CASE c.BootstrapStrategy = "vault" -> "vault"
           [] c.BootstrapStrategy = "hybrid" -> "hybrid"
           [] c.BootstrapStrategy \in {"server-first", ""} -> "fallback"
           [] c.BootstrapStrategy = "server" -> "server"
           [] OTHER -> "fallback"
    ELSE "server"

Bootstrap(strategy, namespaces, env) ==
    CASE strategy = "server" -> ServerStrategy_Bootstrap(namespaces, env)
      [] strategy = "vault" -> VaultStrategy_Bootstrap(namespaces, env)
      [] strategy = "hybrid" -> HybridStrategy_Bootstrap(namespaces, env)
      [] strategy = "fallback" -> FallbackStrategy_Bootstrap(namespaces, env)

\* for _, ff := range families { store.Put(ff) }
RECURSIVE PutEach(_, _)
PutEach(d, families) ==
    IF families = << >> THEN d
    ELSE PutEach(Put(d, Head(families)), Tail(families))

\* What New returns and leaves behind: the error, whether a client is
\* returned, the client's fields, whether pollLoop was launched, and the
\* data-source calls made.
NewFailed(err, log) ==
    [err |-> err, client |-> FALSE, data |-> NoValue, namespaceCursors |-> NoValue,
     encryptionService |-> NoValue, watchers |-> NoValue, listeners |-> NoValue,
     pollStarted |-> FALSE, calls |-> log]

New(c, env) ==
    IF validateConfig(c) # NoError THEN NewFailed(validateConfig(c), << >>)
    ELSE IF c.AuthPrivateKeyPath # "" /\ Len(c.Namespaces) > 1
         THEN NewFailed(ErrSingleNamespace, << >>)
    ELSE IF c.AuthPrivateKeyPath # "" /\ ~env.authKeyLoads
         THEN NewFailed(ErrLoadAuthKey, << >>)
    ELSE IF c.EncryptionPrivateKeyPath # "" /\ ~env.encKeyLoads
         THEN NewFailed(ErrEncryptionService, << >>)
    ELSE IF c.VaultEnabled /\ ~env.vaultServiceOk
         THEN NewFailed(ErrVaultService, << >>)
    ELSE LET result == Bootstrap(selectStrategy(c), c.Namespaces, env)
         IN  IF result.err # NoError
             THEN NewFailed(ErrBootstrapFailed, result.calls)
             ELSE [err |-> NoError, client |-> TRUE,
                   data |-> PutEach(EmptyMap, result.FigFamilies),
                   namespaceCursors |-> MapCopy(EmptyMap, result.Cursors),
                   encryptionService |->
                       IF c.EncryptionPrivateKeyPath # "" THEN "configured" ELSE "nil",
                   watchers |-> EmptyMap, listeners |-> EmptyMap,
                   pollStarted |-> TRUE, calls |-> result.calls]

(***************************************************************************)
(* Configurations and environments drawn for the client.                   *)
(***************************************************************************)
Config(baseURL, envID, secret, authKeyPath, namespaces, vault, strategy, encKeyPath) ==
    [BaseURL |-> baseURL, EnvironmentID |-> envID,
     ClientSecret |-> secret, AuthPrivateKeyPath |-> authKeyPath,
     Namespaces |-> namespaces, VaultEnabled |-> vault,
     BootstrapStrategy |-> strategy, EncryptionPrivateKeyPath |-> encKeyPath,
     UseLongPolling |-> TRUE]

\* config.WithLongPolling(enable)
WithLongPolling(c, enable) == [c EXCEPT !.UseLongPolling = enable]

\* config.DefaultConfig's BaseURL
DefaultBaseURL == "https://app.figchain.io/api/"

ClientNamespaces == {"a", "a:b"}

NamespaceLists == {<< >>, <<"a">>, <<"a:b">>, <<"a", "a:b">>, <<"a:b", "a">>}

BootstrapStrategies == {"server", "server-first", "vault", "hybrid", "", "bogus"}

ConfigUniverse ==
    {Config(u, e, s, k, n, v, b, x) :
        u \in {"", DefaultBaseURL}, e \in {"", "env-1"}, s \in {"", "secret"},
        k \in {"", "auth.pem"}, n \in NamespaceLists, v \in BOOLEAN,
        b \in BootstrapStrategies, x \in {"", "enc.pem"}}

\* Payloads: plaintext Avro bytes of a value, or the ciphertext of them.
Plain(value) == [kind |-> "plain", of |-> value]
Cipher(value) == [kind |-> "cipher", of |-> value]

\* The user_id attribute maps evaluated against the client's families.
UserIs123 == Condition("user_id", "EQUALS", <<S_123>>)

\* Families with key "c" in namespace ns.
PlainFamily(ns) ==
    FigFamily(ns, "c", <<Fig("v1", Plain("p1"), FALSE)>>, << >>, <<"v1">>)

UpdatedFamily(ns) ==
    FigFamily(ns, "c", <<Fig("v2", Plain("p2"), FALSE)>>, << >>, <<"v2">>)

\* v2 is encrypted and served to user 123; everyone else gets v1
SecretFamily(ns) ==
    FigFamily(ns, "c",
              <<Fig("v1", Plain("p1"), FALSE), Fig("v2", Cipher("p2"), TRUE)>>,
              <<Rule(<<UserIs123>>, "v2")>>, <<"v1">>)

\* no default version: only user 123 gets a fig
NoDefaultFamily(ns) ==
    FigFamily(ns, "c", <<Fig("v1", Plain("p1"), FALSE)>>,
              <<Rule(<<UserIs123>>, "v1")>>, << >>)

\* the default version names a fig that is not there
BrokenFamily(ns) ==
    FigFamily(ns, "c", <<Fig("v1", Plain("p1"), FALSE)>>, << >>, <<"v9">>)

\* model.InitialFetchResponse / model.UpdateFetchResponse, or the error
FetchFailed == [err |-> ErrTransport, FigFamilies |-> << >>, Cursor |-> ""]

FetchResponses(familyLists, cursors) ==
    {FetchFailed} \cup
    {[err |-> NoError, FigFamilies |-> fs, Cursor |-> c] : fs \in familyLists, c \in cursors}

\* model.Backup payload, or the error of LoadBackup
BackupFailed == [err |-> ErrLoadBackup, SyncToken |-> "", Items |-> << >>]

BackupItemLists ==
    {<< >>, <<PlainFamily("a")>>, <<PlainFamily("a:b")>>, <<PlainFamily("z")>>,
     <<PlainFamily("a"), PlainFamily("a:b")>>}

Backups ==
    {BackupFailed} \cup
    {[err |-> NoError, SyncToken |-> t, Items |-> items] :
        t \in {"", "t1"}, items \in BackupItemLists}

\* One response per namespace, each drawn from resp(namespace).
ResponseMaps(resp(_)) ==
    {f \in [ClientNamespaces -> UNION {resp(n) : n \in ClientNamespaces}] :
        \A n \in ClientNamespaces : f[n] \in resp(n)}

InitialResponses(ns) == FetchResponses({<< >>, <<PlainFamily(ns)>>}, {"", "s1"})

UpdateResponses(ns) == FetchResponses({<< >>, <<UpdatedFamily(ns)>>}, {"", "u1"})

InitialMaps == ResponseMaps(InitialResponses)

UpdateMaps == ResponseMaps(UpdateResponses)

Environment(authKeyLoads, encKeyLoads, vaultServiceOk, initial, backup, update) ==
    [authKeyLoads |-> authKeyLoads, encKeyLoads |-> encKeyLoads,
     vaultServiceOk |-> vaultServiceOk,
     initial |-> initial, backup |-> backup, update |-> update]

\* The part of the environment New never consults is held fixed.
AllFetchesFail == [ns \in ClientNamespaces |-> FetchFailed]

\* The environments a run of New with configuration c can tell apart: a
\* file or service is varied only if New with c reaches it.
Environments(c) ==
    LET valid == validateConfig(c) = NoError
                 /\ ~(c.AuthPrivateKeyPath # "" /\ Len(c.Namespaces) > 1)
        strategy == selectStrategy(c)
        loads == {Environment(a, e, v, AllFetchesFail, BackupFailed, AllFetchesFail) :
                     a \in IF valid /\ c.AuthPrivateKeyPath # "" THEN BOOLEAN ELSE {TRUE},
                     e \in IF valid /\ c.EncryptionPrivateKeyPath # "" THEN BOOLEAN ELSE {TRUE},
                     v \in IF valid /\ c.VaultEnabled THEN BOOLEAN ELSE {TRUE}}
        sources == {Environment(TRUE, TRUE, TRUE, i, b, u) :
                     i \in IF strategy \in {"server", "fallback", "hybrid"}
                           THEN InitialMaps ELSE {AllFetchesFail},
                     b \in IF strategy \in {"vault", "fallback", "hybrid"}
                           THEN Backups ELSE {BackupFailed},
                     u \in IF strategy = "hybrid" THEN UpdateMaps ELSE {AllFetchesFail}}
    IN  IF valid THEN loads \cup sources ELSE loads

(***************************************************************************)
(* Construction: New on a drawn configuration in a drawn environment.      *)
(***************************************************************************)
InitNew ==
    /\ cfg \in ConfigUniverse
    /\ newOut = [op |-> "none"]
    /\ calls = << >>
    /\ pollStarted = FALSE
    /\ data = NoValue
    /\ encryptionService = NoValue
    /\ namespaceCursors = NoValue
    /\ watchers = NoValue
    /\ listeners = NoValue
    /\ getFigOut = NoValue
    /\ EvalIdle
    /\ StoreIdle
    /\ SyncIdle
    /\ BootIdle
    /\ CryptoIdle

NewCall ==
    /\ newOut.op = "none"
    /\ \E env \in Environments(cfg) :
          LET r == New(cfg, env)
          IN  /\ newOut' = [op |-> "New", err |-> r.err, client |-> r.client]
              /\ data' = r.data
              /\ encryptionService' = r.encryptionService
              /\ namespaceCursors' = r.namespaceCursors
              /\ watchers' = r.watchers
              /\ listeners' = r.listeners
              /\ pollStarted' = r.pollStarted
              /\ calls' = r.calls
    /\ UNCHANGED <<syncVars, bootVars, cryptoVars, cfg, getFigOut, evalVars, storeVars>>

NextNew == NewCall

SpecNew == InitNew /\ [][NextNew]_vars

AllSourcesFailed == calls # << >> /\ \A i \in 1..Len(calls) : ~calls[i].ok

\* C8: when every data source the selected strategy consults fails, New
\* returns a bootstrap error and no client, whichever strategy is selected.
C8_NewFailsWhenAllSourcesFail ==
    (newOut.op = "New" /\ AllSourcesFailed)
    => /\ newOut.err = ErrBootstrapFailed
       /\ ~newOut.client
       /\ ~pollStarted

(***************************************************************************)
(* Client.GetFig.  Its inputs besides key and context are what the         *)
(* collaborators answer: in.decryptOk (encryption.Service.Decrypt),        *)
(* in.targetOk (target is an AvroRecord whose schema parses),              *)
(* in.unmarshalOk (avro.Unmarshal accepts the bytes) and in.ctxDone (the   *)
(* caller's EvaluationContext is cancelled, or past its deadline, by the   *)
(* time the namespace key is fetched).                                     *)
(***************************************************************************)
ErrNoNamespaces == "no namespaces configured"
ErrFigNotFound == "fig not found"
ErrEvaluationFailed == "evaluation failed"
ErrNoMatchingFig == "no matching fig found"
ErrTarget == "target must implement AvroRecord"
ErrUnmarshal == "failed to unmarshal avro"
ErrEncryptionNotConfigured == "encryption not configured"

\* What avro.Unmarshal leaves in the target when it accepts the bytes:
\* the value if they are its plaintext, anything if they are ciphertext.
Garbage == "garbage"

Unmarshalled(payload) == IF payload.kind = "plain" THEN payload.of ELSE Garbage

\* context.Background() is never done.
BackgroundDone == FALSE

\* Whether encryption.Service.Decrypt(ctx, ...) returns an error: the key
\* fetch is aborted when ctx is done, and otherwise fails or not as the
\* collaborators answer.
DecryptFails(ctxDone, in) == ctxDone \/ ~in.decryptOk

\* encryption.Service.Decrypt when it succeeds
Decrypt(fig) == IF ~fig.IsEncrypted THEN fig.Payload ELSE Plain(fig.Payload.of)

\* What GetFig returns: the error, and as history the fig selected, the
\* bytes handed to avro.Unmarshal and what the target was filled with.
GetFigResult(err, fig, decoded, target) ==
    [err |-> err, fig |-> fig, decoded |-> decoded, target |-> target]

\* The tail of GetFig, once the payload to decode is known.
deserialize(fig, payload, in) ==
    IF ~in.targetOk THEN GetFigResult(ErrTarget, <<fig>>, << >>, << >>)
    ELSE IF ~in.unmarshalOk THEN GetFigResult(ErrUnmarshal, <<fig>>, <<payload>>, << >>)
    ELSE GetFigResult(NoError, <<fig>>, <<payload>>, <<Unmarshalled(payload)>>)

GetFig(c, d, enc, key, attrs, in) ==
    IF Len(c.Namespaces) = 0 THEN GetFigResult(ErrNoNamespaces, << >>, << >>, << >>)
    ELSE LET namespace == c.Namespaces[1]
             got == Get(d, namespace, key)
         IN  IF ~got.ok THEN GetFigResult(ErrFigNotFound, << >>, << >>, << >>)
             ELSE LET ev == Evaluate(got.family[1], attrs)
                  IN  IF ev.err # NoError
                      THEN GetFigResult(ErrEvaluationFailed, << >>, << >>, << >>)
                      ELSE IF ev.fig = << >>
                      THEN GetFigResult(ErrNoMatchingFig, << >>, << >>, << >>)
                      ELSE LET fig == ev.fig[1]
                           IN  IF enc # "nil" /\ fig.IsEncrypted
                               THEN IF DecryptFails(BackgroundDone, in)
                                    THEN GetFigResult(NoError, <<fig>>, << >>, << >>)
                                    ELSE deserialize(fig, Decrypt(fig), in)
                               ELSE deserialize(fig, fig.Payload, in)

(***************************************************************************)
(* The client after construction: New has returned it, with the store      *)
(* filled by the server strategy, and GetFig is called on it.              *)
(***************************************************************************)
RunningConfigs ==
    {Config(DefaultBaseURL, "env-1", "secret", "", n, FALSE, "server", x) :
        n \in NamespaceLists, x \in {"", "enc.pem"}}

ServedResponses(ns) ==
    {[err |-> NoError, FigFamilies |-> fs, Cursor |-> "s1"] :
        fs \in {<< >>, <<PlainFamily(ns)>>, <<SecretFamily(ns)>>,
                <<NoDefaultFamily(ns)>>, <<BrokenFamily(ns)>>}}

RunningEnvironments ==
    {Environment(TRUE, TRUE, TRUE, i, BackupFailed, AllFetchesFail) :
        i \in ResponseMaps(ServedResponses)}

GetFigKeys == {"c", "b:c", "d"}

GetFigInputs ==
    [decryptOk : BOOLEAN, targetOk : BOOLEAN, unmarshalOk : BOOLEAN, ctxDone : BOOLEAN]

Init ==
    /\ cfg \in RunningConfigs
    /\ \E env \in RunningEnvironments :
          LET r == New(cfg, env)
          IN  /\ r.client
              /\ newOut = [op |-> "New", err |-> r.err, client |-> r.client]
              /\ data = r.data
              /\ encryptionService = r.encryptionService
              /\ namespaceCursors = r.namespaceCursors
              /\ watchers = r.watchers
              /\ listeners = r.listeners
              /\ pollStarted = r.pollStarted
              /\ calls = r.calls
    /\ getFigOut = [op |-> "none"]
    /\ EvalIdle
    /\ StoreIdle
    /\ SyncIdle
    /\ BootIdle
    /\ CryptoIdle

GetFigCall ==
    /\ newOut.client
    /\ \E key \in GetFigKeys, attrs \in EvalAttributes, in \in GetFigInputs :
          LET r == GetFig(cfg, data, encryptionService, key, attrs, in)
          IN  getFigOut' = [op |-> "GetFig", key |-> key, attrs |-> attrs, in |-> in,
                            err |-> r.err, fig |-> r.fig,
                            decoded |-> r.decoded, target |-> r.target]
    /\ UNCHANGED <<syncVars, bootVars, cryptoVars, data, cfg, encryptionService, namespaceCursors, watchers,
                   listeners, pollStarted, calls, newOut, evalVars, storeVars>>

Next == GetFigCall

Spec == Init /\ [][Next]_vars

\* The families the store holds for the first configured namespace and the
\* key of the last GetFig call.
HeldForFirstNamespace ==
    {k \in DOMAIN data :
        data[k].Definition = [Namespace |-> cfg.Namespaces[1], Key |-> getFigOut.key]}

\* C9: GetFig(key) returns FigNotFound exactly when the store holds no
\* family for (namespaces[0], key), whatever the other namespaces hold, and
\* NoMatchingFig when that family exists but evaluation yields no fig.
C9_GetFigUsesFirstNamespaceOnly ==
    (getFigOut.op = "GetFig" /\ cfg.Namespaces # << >>)
    => /\ (getFigOut.err = ErrFigNotFound) <=> (HeldForFirstNamespace = {})
       /\ \A k \in HeldForFirstNamespace :
             Evaluate(data[k], getFigOut.attrs) = [fig |-> << >>, err |-> NoError]
             => getFigOut.err = ErrNoMatchingFig

\* C10: when the fig GetFig selected is encrypted and the client has no
\* encryption service, GetFig returns EncryptionNotConfigured, hands nothing
\* to the decoder and leaves the target alone.
C10_EncryptedWithoutServiceIsAnError ==
    (/\ getFigOut.op = "GetFig"
     /\ getFigOut.fig # << >>
     /\ getFigOut.fig[1].IsEncrypted
     /\ encryptionService = "nil")
    => /\ getFigOut.err = ErrEncryptionNotConfigured
       /\ getFigOut.decoded = << >>
       /\ getFigOut.target = << >>

\* Whether the last GetFig call went into the decryption pipeline.
DecryptionAttempted ==
    /\ getFigOut.op = "GetFig"
    /\ getFigOut.fig # << >>
    /\ getFigOut.fig[1].IsEncrypted
    /\ encryptionService = "configured"

\* C11: when decryption of the selected fig fails, GetFig returns an error
\* to its caller; it never reports success with an unpopulated target.
C11_GetFigReturnsDecryptionError ==
    (DecryptionAttempted /\ ~getFigOut.in.decryptOk)
    => /\ getFigOut.err # NoError
       /\ ~(getFigOut.err = NoError /\ getFigOut.target = << >>)

ErrCancelled == "context canceled"

\* C12: when the EvaluationContext is cancelled while GetFig fetches the
\* namespace key of the decryption pipeline, GetFig returns a cancellation
\* error.
C12_GetFigInheritsCancellation ==
    (DecryptionAttempted /\ getFigOut.in.ctxDone)
    => getFigOut.err = ErrCancelled

(***************************************************************************)
(* The running client: the pollLoop goroutine, Watch subscriptions and     *)
(* Close.  Each section of code that runs under Client.mu is one step; the *)
(* write lock pollUpdates holds while it applies a response spans one step *)
(* per family, so that subscribers can read their channels in between.     *)
(***************************************************************************)
\* make(chan model.FigFamily, 1)
WatchBuffer == 1

MaxApplied == 2     \* most families the update responses deliver in all

Subscribers == {"w1", "w2"}     \* the calls of Watch
Closers == {"k1", "k2"}         \* the calls of Close
WatchKeys == {"c", "d"}

\* The calls are told apart by the order in which they are made: w1 is the
\* first call of Watch, k1 the first call of Close.
CallOrder == <<"w1", "w2", "k1", "k2">>

EarlierCalls(c, C) ==
    {d \in C : \E i, j \in 1..Len(CallOrder) :
                  CallOrder[i] = d /\ CallOrder[j] = c /\ i < j}

\* A send that waits for room in the buffer.
sendReady_Blocking(buf) == Len(buf) < WatchBuffer

\* select { case ch <- ff: default: } never waits
sendReady(buf) == TRUE

\* A send that always queues, newest first.
chanSend_Stacking(buf, item) == <<item>> \o buf

\* select { case ch <- ff: default: }: queue the item if there is room,
\* drop it otherwise
chanSend(buf, item) == IF Len(buf) < WatchBuffer THEN Append(buf, item) ELSE buf

\* A removal that empties the list.
removeChan_All(list, ch) == << >>

\* append(chans[:i], chans[i+1:]...) for the first i with chans[i] == ch
\* A removal that leaves the list as it is.
removeChan_None(list, ch) == list

removeChan(list, ch) ==
    IF ch \notin Range(list) THEN list
    ELSE LET i == CHOOSE j \in 1..Len(list) :
                      list[j] = ch /\ \A k \in 1..(j - 1) : list[k] # ch
         IN  SubSeq(list, 1, i - 1) \o SubSeq(list, i + 1, Len(list))

\* c.watchers[key] = append(c.watchers[key], ch)
addWatcher(w, key, ch) ==
    MapPut(w, key, (IF key \in DOMAIN w THEN w[key] ELSE << >>) \o <<ch>>)

\* The channels registered for the key of ff.
watchersOf(w, ff) ==
    IF ff.Definition.Key \in DOMAIN w THEN Range(w[ff.Definition.Key]) ELSE {}

\* A fan-out that sends on every channel, whatever its key.
notifyWatchers_AllKeys(w, cs, ff, put) ==
    [s \in DOMAIN cs |->
        IF cs[s].state \in {"live", "cancelled"}
        THEN [cs[s] EXCEPT !.buf = chanSend(@, [family |-> ff, put |-> put])]
        ELSE cs[s]]

\* The fan-out of one family: a non-blocking send on each channel
\* registered for its key.  put is the position of the family in applied.
notifyWatchers(w, cs, ff, put) ==
    [s \in DOMAIN cs |->
        IF s \in watchersOf(w, ff)
        THEN [cs[s] EXCEPT !.buf = chanSend(@, [family |-> ff, put |-> put])]
        ELSE cs[s]]

\* The n-th family the server publishes: a new version of (ns, key).
VersionNames == <<"v1", "v2", "v3", "v4">>

Published(ns, key, n) ==
    FigFamily(ns, key, <<Fig(VersionNames[n], Plain(VersionNames[n]), FALSE)>>,
              << >>, <<VersionNames[n]>>)

\* The keys of the families one update response carries, in order.
UpdateKeyLists == {<< >>, <<"c">>, <<"d">>, <<"c", "c">>, <<"c", "d">>}

\* The cursors in the order in which the server issues them: that of the
\* initial fetch, then those of the updates.
CursorOrder == <<"s1", "u1", "u2">>

CursorRank(c) == CHOOSE i \in 1..Len(CursorOrder) : CursorOrder[i] = c

\* The server answers a request with no cursor, or with one that is not
\* older than the cursor of the request.
Answers(resp, cursor) ==
    IF resp.Cursor = "" THEN TRUE ELSE CursorRank(resp.Cursor) >= CursorRank(cursor)

\* What Transport.FetchUpdate can answer for ns when n families have been
\* published before and the responses may still deliver budget families.
FetchUpdateResponses(ns, n, budget) ==
    {FetchFailed} \cup
    {[err |-> NoError,
      FigFamilies |-> [i \in 1..Len(ks) |-> Published(ns, ks[i], n + i)],
      Cursor |-> c] :
        ks \in {l \in UpdateKeyLists : Len(l) <= budget}, c \in {""} \cup serverCursors}

NoRound == [cursors |-> EmptyMap, todo |-> {}]

NoRequest == [ns |-> "", cursor |-> "", resp |-> FetchFailed, i |-> 0]

NoChannel == [state |-> "none", key |-> "", buf |-> << >>, closes |-> 0]

\* A client of one namespace, for the subscriptions; one of two, for the
\* rounds of the polling goroutine.
SyncConfigs ==
    {Config(DefaultBaseURL, "env-1", "secret", "", <<"a">>, FALSE, "server", "")}

ShutdownConfigs ==
    {Config(DefaultBaseURL, "env-1", "secret", "", <<"a", "a:b">>, FALSE, "server", "")}

SyncEnvironment ==
    Environment(TRUE, TRUE, TRUE,
                [ns \in ClientNamespaces |->
                    [err |-> NoError, FigFamilies |-> <<PlainFamily(ns)>>, Cursor |-> "s1"]],
                BackupFailed, AllFetchesFail)

InitClient(configs, cursors) ==
    /\ cfg \in configs
    /\ serverCursors = cursors
    /\ LET r == New(cfg, SyncEnvironment)
       IN  /\ r.client
           /\ newOut = [op |-> "New", err |-> r.err, client |-> r.client]
           /\ data = r.data
           /\ encryptionService = r.encryptionService
           /\ namespaceCursors = r.namespaceCursors
           /\ watchers = r.watchers
           /\ listeners = r.listeners
           /\ pollStarted = r.pollStarted
           /\ calls = r.calls
    /\ getFigOut = NoValue
    /\ mu = "free"
    /\ closeCh = "open"
    /\ panicked = FALSE
    /\ closers = [k \in Closers |-> "idle"]
    /\ pollPc = "select"
    /\ round = NoRound
    /\ current = NoRequest
    /\ chans = [s \in Subscribers |-> NoChannel]
    /\ received = [s \in Subscribers |-> << >>]
    /\ applied = << >>
    /\ answeredAfterClose = FALSE
    /\ failedCursor = [ns \in DOMAIN namespaceCursors |-> NoValue]
    /\ latestCursor = namespaceCursors
    /\ sinceRound = NoValue
    /\ EvalIdle
    /\ StoreIdle
    /\ BootIdle
    /\ CryptoIdle

InitSync == InitClient(SyncConfigs, {"u1"})

InitShutdown == InitClient(ShutdownConfigs, {"u1"})

\* The process is alive and New has returned the client.
Running == newOut.client /\ ~panicked

configVars ==
    <<cfg, encryptionService, listeners, pollStarted, calls, newOut, getFigOut,
      serverCursors, bootVars, cryptoVars>>

pollHistory == <<failedCursor, latestCursor, sinceRound>>

closeVars == <<closeCh, panicked, closers>>

pollVars == <<pollPc, round, current>>

\* pollLoop: select { case <-c.closeCh: return; default: c.pollUpdates() },
\* and the cursor snapshot pollUpdates takes under the read lock.
PollSelect ==
    /\ Running
    /\ pollPc = "select"
    /\ IF closeCh = "closed"
       THEN pollPc' = "done" /\ round' = NoRound /\ sinceRound' = sinceRound
       ELSE /\ pollPc' = "round"
            /\ round' = [cursors |-> namespaceCursors, todo |-> DOMAIN namespaceCursors]
            /\ sinceRound' = "polling"
    /\ UNCHANGED <<current, mu, closeVars, chans, received, applied, data,
                   namespaceCursors, watchers, configVars, answeredAfterClose,
                   failedCursor, latestCursor,
                   evalVars, storeVars>>

\* A request that carries the cursor the client was built with.
PollFetch_BootCursor ==
    /\ Running
    /\ pollPc = "round"
    /\ IF round.todo = {}
       THEN pollPc' = "select" /\ round' = NoRound /\ current' = current
       ELSE \E ns \in round.todo :
               /\ round' = [round EXCEPT !.todo = @ \ {ns}]
               /\ current' = [NoRequest EXCEPT !.ns = ns, !.cursor = "s1"]
               /\ pollPc' = "inflight"
    /\ UNCHANGED <<mu, closeVars, chans, received, applied, data,
                   namespaceCursors, watchers, configVars, answeredAfterClose, pollHistory,
                   evalVars, storeVars>>

\* pollUpdates: the next namespace of the snapshot (a Go map is ranged over
\* in any order) and its FetchUpdate request; the end of the round.
PollFetch ==
    /\ Running
    /\ pollPc = "round"
    /\ IF round.todo = {}
       THEN pollPc' = "select" /\ round' = NoRound /\ current' = current
       ELSE \E ns \in round.todo :
               /\ round' = [round EXCEPT !.todo = @ \ {ns}]
               /\ current' = [NoRequest EXCEPT !.ns = ns, !.cursor = round.cursors[ns]]
               /\ pollPc' = "inflight"
    /\ UNCHANGED <<mu, closeVars, chans, received, applied, data,
                   namespaceCursors, watchers, configVars, answeredAfterClose, pollHistory,
                   evalVars, storeVars>>

\* FetchUpdate returns: an error sends pollUpdates into its backoff; a
\* response with families makes it take the write lock.
FetchUpdateReturns ==
    /\ Running
    /\ pollPc = "inflight"
    /\ \E resp \in FetchUpdateResponses(current.ns, Len(applied), MaxApplied - Len(applied)) :
          /\ Answers(resp, current.cursor)
          /\ IF resp.err # NoError
             THEN pollPc' = "backoff" /\ current' = NoRequest /\ mu' = mu
             ELSE IF Len(resp.FigFamilies) > 0
             THEN /\ mu = "free"
                  /\ mu' = "poll"
                  /\ pollPc' = "apply"
                  /\ current' = [current EXCEPT !.resp = resp, !.i = 1]
             ELSE /\ pollPc' = "cursor"
                  /\ current' = [current EXCEPT !.resp = resp]
                  /\ mu' = mu
          /\ failedCursor' =
                [failedCursor EXCEPT ![current.ns] =
                    IF resp.err # NoError THEN current.cursor ELSE NoValue]
          /\ latestCursor' =
                IF resp.err = NoError /\ resp.Cursor # ""
                THEN [latestCursor EXCEPT ![current.ns] = resp.Cursor]
                ELSE latestCursor
    /\ answeredAfterClose' = (answeredAfterClose \/ closeCh = "closed")
    /\ UNCHANGED <<round, closeVars, chans, received, applied, data, sinceRound,
                   namespaceCursors, watchers, configVars, evalVars, storeVars>>

\* pollUpdates, under the write lock: Put the next family of the response
\* and notify the watchers of its key; unlock after the last one.
PollApply ==
    /\ Running
    /\ pollPc = "apply"
    /\ LET ff == current.resp.FigFamilies[current.i]
       IN  /\ \A s \in watchersOf(watchers, ff) : sendReady(chans[s].buf)
           /\ data' = Put(data, ff)
           /\ applied' = Append(applied, ff)
           /\ chans' = notifyWatchers(watchers, chans, ff, Len(applied) + 1)
    /\ IF current.i = Len(current.resp.FigFamilies)
       THEN mu' = "free" /\ pollPc' = "cursor" /\ current' = current
       ELSE mu' = mu /\ pollPc' = pollPc /\ current' = [current EXCEPT !.i = @ + 1]
    /\ UNCHANGED <<round, closeVars, received, namespaceCursors, watchers,
                   configVars, answeredAfterClose, pollHistory,
                   evalVars, storeVars>>

\* A cursor step that stores the cursor of the response even when empty.
PollCursor_Always ==
    /\ Running
    /\ pollPc = "cursor"
    /\ namespaceCursors' = MapPut(namespaceCursors, current.ns, current.resp.Cursor)
    /\ pollPc' = "round"
    /\ current' = NoRequest
    /\ UNCHANGED <<round, mu, closeVars, chans, received, applied, data,
                   watchers, configVars, answeredAfterClose, pollHistory,
                   evalVars, storeVars>>

\* pollUpdates: if resp.Cursor != "" { c.namespaceCursors[ns] = resp.Cursor }
PollCursor ==
    /\ Running
    /\ pollPc = "cursor"
    /\ namespaceCursors' =
          IF current.resp.Cursor # ""
          THEN MapPut(namespaceCursors, current.ns, current.resp.Cursor)
          ELSE namespaceCursors
    /\ pollPc' = "round"
    /\ current' = NoRequest
    /\ UNCHANGED <<round, mu, closeVars, chans, received, applied, data,
                   watchers, configVars, answeredAfterClose, pollHistory,
                   evalVars, storeVars>>

\* pollUpdates, after an error: select { case <-c.closeCh: return ... }
PollBackoffClosed ==
    /\ Running
    /\ pollPc = "backoff"
    /\ closeCh = "closed"
    /\ pollPc' = "done"
    /\ round' = NoRound
    /\ UNCHANGED <<current, mu, closeVars, chans, received, applied, data,
                   namespaceCursors, watchers, configVars, answeredAfterClose, pollHistory,
                   evalVars, storeVars>>

\* A backoff that ends the polling goroutine instead of sleeping.
PollBackoff_GiveUp ==
    /\ Running
    /\ pollPc = "backoff"
    /\ closeCh = "open"
    /\ pollPc' = "done"
    /\ sinceRound' = "waited"
    /\ UNCHANGED <<round, current, mu, closeVars, chans, received, applied, data,
                   namespaceCursors, watchers, configVars, answeredAfterClose,
                   failedCursor, latestCursor,
                   evalVars, storeVars>>

\* pollUpdates, after an error: case <-time.After(c.cfg.PollingInterval):
\* continue.  The interval is positive: the timer wakes the goroutine only
\* if the close of closeCh has not woken it before.
PollBackoffElapsed ==
    /\ Running
    /\ pollPc = "backoff"
    /\ closeCh = "open"
    /\ pollPc' = "round"
    /\ sinceRound' = "waited"
    /\ UNCHANGED <<round, current, mu, closeVars, chans, received, applied, data,
                   namespaceCursors, watchers, configVars, answeredAfterClose,
                   failedCursor, latestCursor,
                   evalVars, storeVars>>

PollStep ==
    \/ PollSelect
    \/ PollFetch
    \/ FetchUpdateReturns
    \/ PollApply
    \/ PollCursor
    \/ PollBackoffClosed
    \/ PollBackoffElapsed

\* Watch(ctx, key): make the channel and register it under the lock.
WatchCall(s, key) ==
    /\ Running
    /\ chans[s].state = "none"
    /\ \A t \in EarlierCalls(s, Subscribers) : chans[t].state # "none"
    /\ mu = "free"
    /\ chans' = [chans EXCEPT ![s] = [NoChannel EXCEPT !.state = "live", !.key = key]]
    /\ watchers' = addWatcher(watchers, key, s)
    /\ UNCHANGED <<pollVars, mu, closeVars, received, applied, data,
                   namespaceCursors, configVars, answeredAfterClose, pollHistory,
                   evalVars, storeVars>>

\* The context of a Watch call is cancelled: its goroutine gets past
\* <-ctx.Done() and goes for the lock.
ContextDone(s) ==
    /\ Running
    /\ chans[s].state = "live"
    /\ chans' = [chans EXCEPT ![s].state = "cancelled"]
    /\ UNCHANGED <<pollVars, mu, closeVars, received, applied, data, watchers,
                   namespaceCursors, configVars, answeredAfterClose, pollHistory,
                   evalVars, storeVars>>

\* The goroutine of Watch, under the lock: remove the channel from the
\* watchers of its key and close it.
WatchCleanup(s) ==
    /\ Running
    /\ chans[s].state = "cancelled"
    /\ mu = "free"
    /\ watchers' =
          IF chans[s].key \in DOMAIN watchers
          THEN MapPut(watchers, chans[s].key, removeChan(watchers[chans[s].key], s))
          ELSE watchers
    /\ chans' = [chans EXCEPT ![s].state = "closed", ![s].closes = @ + 1]
    /\ UNCHANGED <<pollVars, mu, closeVars, received, applied, data,
                   namespaceCursors, configVars, answeredAfterClose, pollHistory,
                   evalVars, storeVars>>

\* The subscriber receives from its channel.
WatchRead(s) ==
    /\ Running
    /\ chans[s].state # "none"
    /\ chans[s].buf # << >>
    /\ received' = [received EXCEPT ![s] = Append(@, Head(chans[s].buf))]
    /\ chans' = [chans EXCEPT ![s].buf = Tail(@)]
    /\ UNCHANGED <<pollVars, mu, closeVars, applied, data, watchers,
                   namespaceCursors, configVars, answeredAfterClose, pollHistory,
                   evalVars, storeVars>>

\* Close: close(c.closeCh), which panics on a closed channel, then
\* c.wg.Wait().
CloseCall(k) ==
    /\ Running
    /\ closers[k] = "idle"
    /\ \A j \in EarlierCalls(k, Closers) : closers[j] # "idle"
    /\ IF closeCh = "closed"
       THEN /\ panicked' = TRUE
            /\ closers' = [closers EXCEPT ![k] = "panicked"]
            /\ closeCh' = closeCh
       ELSE /\ closeCh' = "closed"
            /\ closers' = [closers EXCEPT ![k] = "waiting"]
            /\ panicked' = panicked
    /\ UNCHANGED <<pollVars, mu, chans, received, applied, data, watchers,
                   namespaceCursors, configVars, answeredAfterClose, pollHistory,
                   evalVars, storeVars>>

\* Close: c.wg.Wait() returns once pollLoop has returned; then
\* c.transport.Close().
CloseReturn(k) ==
    /\ Running
    /\ closers[k] = "waiting"
    /\ pollPc = "done"
    /\ closers' = [closers EXCEPT ![k] = "returned"]
    /\ UNCHANGED <<pollVars, mu, closeCh, panicked, chans, received, applied, data,
                   watchers, namespaceCursors, configVars, answeredAfterClose, pollHistory,
                   evalVars, storeVars>>

NextSync ==
    \/ PollStep
    \/ \E s \in Subscribers, key \in WatchKeys : WatchCall(s, key)
    \/ \E s \in Subscribers : ContextDone(s)
    \/ \E s \in Subscribers : WatchCleanup(s)
    \/ \E s \in Subscribers : WatchRead(s)
    \/ \E k \in Closers : CloseCall(k)
    \/ \E k \in Closers : CloseReturn(k)

SpecSync == InitSync /\ [][NextSync]_vars

\* The polling goroutine and Close on a client of two namespaces.
NextShutdown ==
    \/ PollStep
    \/ \E k \in Closers : CloseCall(k)
    \/ \E k \in Closers : CloseReturn(k)

SpecShutdown == InitShutdown /\ [][NextShutdown]_vars

\* The polling goroutine on a client of two namespaces, with long polling
\* switched on or off, a server that hands out two cursors, and one call
\* of Close.
PollConfigs == {WithLongPolling(c, enable) : c \in ShutdownConfigs, enable \in BOOLEAN}

InitPoll == InitClient(PollConfigs, {"u1", "u2"})

NextPoll ==
    \/ PollStep
    \/ CloseCall("k1")
    \/ CloseReturn("k1")

SpecPoll == InitPoll /\ [][NextPoll]_vars

\* Whether the channel of s is in the watcher list of its key.
Registered(s) ==
    chans[s].key \in DOMAIN watchers /\ s \in Range(watchers[chans[s].key])

\* What subscriber s has been sent and not lost: what it has read, then
\* what waits in its buffer.
Notifications(s) == received[s] \o chans[s].buf

\* C13: when the engine applies a family whose key is K, every registered
\* subscription on K whose buffer is empty at that moment gets that family
\* in its buffer; and nothing a subscription on K is ever sent has a key
\* other than K.
C13_WatchDeliversItsKeyOnly ==
    [][/\ applied' # applied
          => LET put == Len(applied')
                 ff == applied'[put]
             IN  \A s \in Subscribers :
                    (Registered(s) /\ chans[s].key = ff.Definition.Key /\ chans[s].buf = << >>)
                    => chans'[s].buf = <<[family |-> ff, put |-> put]>>
       /\ \A s \in Subscribers :
             \A i \in 1..Len(chans'[s].buf) :
                chans'[s].buf[i].family.Definition.Key = chans'[s].key]_vars

\* A subscriber on one key has read an update while a family of the other
\* key was applied under its eyes.
C13_Witness ==
    \E s \in Subscribers :
       /\ received[s] # << >>
       /\ \E i \in 1..Len(applied) :
             /\ applied[i].Definition.Key # chans[s].key
             /\ i > received[s][1].put

\* The position in applied of the family last applied for key.
LastPutFor(key) ==
    LET ps == {i \in 1..Len(applied) : applied[i].Definition.Key = key}
    IN  CHOOSE i \in ps : \A j \in ps : j <= i

\* C14: what waits in the buffer of a registered subscriber is the update
\* most recently applied for its key: if two updates were applied since the
\* subscriber last read, its next read yields the second.
C14_WatchLatestWins ==
    \A s \in Subscribers :
       (Registered(s) /\ chans[s].buf # << >>)
       => chans[s].buf[1].put = LastPutFor(chans[s].key)

\* C15: what a subscriber is notified of are families the engine Put, each
\* at most once and in the order of the Puts.
C15_WatchInPutOrderWithoutDuplicates ==
    \A s \in Subscribers :
       LET n == Notifications(s)
       IN  /\ \A i \in 1..Len(n) :
                /\ n[i].put \in 1..Len(applied)
                /\ applied[n[i].put] = n[i].family
           /\ \A i, j \in 1..Len(n) : i < j => n[i].put < n[j].put

\* A subscriber has read two updates.
C15_Witness == \E s \in Subscribers : Len(received[s]) = 2

\* C16: the cleanup of a cancelled subscription removes exactly its channel
\* from the watchers and closes it, once; every other subscription keeps
\* its registration and its channel as they were; and a closed subscription
\* stays closed and removed.
C16_CancelRemovesExactlyThatSubscription ==
    [][\A s \in Subscribers :
          /\ (chans[s].state # "closed" /\ chans'[s].state = "closed")
             => /\ chans[s].state = "cancelled"
                /\ chans'[s].closes = 1
                /\ ~Registered(s)'
                /\ \A t \in Subscribers \ {s} : chans'[t] = chans[t]
                /\ \A key \in DOMAIN watchers :
                      LET other(t) == t # s
                      IN  watchers'[key] = SelectSeq(watchers[key], other)
          /\ chans[s].state = "closed"
             => (chans'[s].state = "closed" /\ chans'[s].closes = 1 /\ ~Registered(s)')
          /\ (Registered(s) /\ chans'[s].state # "closed") => Registered(s)']_vars

\* The first subscription is closed and was never notified, while a later
\* one on the same key is registered and holds an update.
C16_Witness ==
    /\ chans["w1"].state = "closed"
    /\ Notifications("w1") = << >>
    /\ chans["w2"].key = chans["w1"].key
    /\ Registered("w2")
    /\ chans["w2"].buf # << >>

\* C17: applying a response never waits for a subscriber: each step of the
\* apply is enabled whatever the buffers hold, and when the apply is over
\* the lock is free, every family of the response has been Put, and the
\* cursor step is enabled.
C17_SyncNeverBlocksOnWatchers ==
    /\ (Running /\ pollPc = "apply") => (mu = "poll" /\ ENABLED PollApply)
    /\ (Running /\ pollPc = "cursor")
       => /\ mu = "free"
          /\ ENABLED PollCursor
          /\ LET fs == current.resp.FigFamilies
             IN  \A i \in 1..Len(fs) :
                    /\ fs[i] = applied[Len(applied) - Len(fs) + i]
                    /\ makeKey(fs[i].Definition.Namespace, fs[i].Definition.Key) \in DOMAIN data

\* The apply is over and a registered subscriber that never read has lost
\* an update: its buffer still holds an older one.
C17_Witness ==
    /\ pollPc = "cursor"
    /\ current.resp.FigFamilies # << >>
    /\ \E s \in Subscribers :
          /\ Registered(s)
          /\ received[s] = << >>
          /\ chans[s].buf # << >>
          /\ chans[s].buf[1].put < LastPutFor(chans[s].key)

\* C18: a second call of Close returns normally: no call of Close panics.
C18_CloseIsIdempotent ==
    /\ ~panicked
    /\ \A k \in Closers : closers[k] # "panicked"

\* C19: a Close during the backoff sleep makes the polling goroutine return
\* without another FetchUpdate; and once Close has been called and the
\* request then in flight has resolved, the goroutine begins no other
\* request: it returns without another answer of the server.
C19_CloseEndsTheLoopAfterTheRequestInFlight ==
    [][/\ (closeCh = "closed" /\ pollPc = "backoff") => pollPc' \in {"backoff", "done"}
       /\ (answeredAfterClose /\ pollPc # "inflight") => pollPc' # "inflight"]_vars

\* C20: Close cancels the request in flight: once Close has been called, no
\* FetchUpdate request is waiting for the server.
C20_CloseCancelsTheRequestInFlight ==
    closeCh = "closed" => pollPc # "inflight"


(***************************************************************************)
(* The synchronization engine: errors, rounds, responses and cursors.      *)
(***************************************************************************)
\* A GetFig call whose target and payload are in order.
PlainCall == [decryptOk |-> TRUE, targetOk |-> TRUE, unmarshalOk |-> TRUE, ctxDone |-> FALSE]

\* Whether this step is FetchUpdate returning an error.
FetchFails == pollPc = "inflight" /\ pollPc' = "backoff"

\* C21: a failed FetchUpdate leaves the store, the cursors and the
\* subscriptions as they were and reaches no caller (GetFig keeps answering
\* from the store, which no lock of the polling goroutine guards); the
\* polling goroutine then sleeps, and leaves the sleep only after
\* pollingInterval or because of Close; it ends only after Close; and the
\* next request for that namespace carries the cursor of the failed one.
C21_FailedFetchIsSwallowed ==
    [][/\ FetchFails
          => /\ data' = data
             /\ namespaceCursors' = namespaceCursors
             /\ watchers' = watchers
             /\ chans' = chans
             /\ panicked' = panicked
             /\ mu' = "free"
             /\ \A key \in GetFigKeys :
                   /\ GetFig(cfg, data', encryptionService, key, EmptyMap, PlainCall)
                        = GetFig(cfg, data, encryptionService, key, EmptyMap, PlainCall)
                   /\ key = "c" =>
                        GetFig(cfg, data', encryptionService, key, EmptyMap, PlainCall).err
                          = NoError
       /\ (pollPc = "backoff" /\ pollPc' # "backoff")
          => \/ pollPc' = "done" /\ closeCh = "closed"
             \/ pollPc' = "round" /\ sinceRound' = "waited"
       /\ (pollPc # "done" /\ pollPc' = "done") => closeCh = "closed"
       /\ (pollPc' = "inflight" /\ pollPc # "inflight"
              /\ failedCursor[current'.ns] # NoValue)
          => current'.cursor = failedCursor[current'.ns]]_vars

\* C21 happens: after updates were applied and with a live subscription, a
\* request failed, the goroutine slept, and the request in flight is the
\* retry, carrying the cursor of the failed one.
C21_Witness ==
    /\ pollPc = "inflight"
    /\ failedCursor[current.ns] = current.cursor
    /\ latestCursor[current.ns] = "u1"
    /\ applied # << >>
    /\ \E s \in Subscribers : chans[s].state = "live"


\* C22: with UseLongPolling = false the polling goroutine never begins a
\* round without having waited a pollingInterval since it began the round
\* before; with UseLongPolling = true it sleeps only after an error, so
\* that a successful response is followed by the next request at once.
C22_PollingModeFollowsConfiguration ==
    [][/\ (~cfg.UseLongPolling /\ pollPc = "select" /\ pollPc' = "round")
          => sinceRound # "polling"
       /\ (cfg.UseLongPolling /\ sinceRound' = "waited" /\ sinceRound # "waited")
          => pollPc = "backoff"]_vars


\* The families of the response being applied that have been Put.
AppliedOfResponse ==
    IF pollPc = "apply" THEN current.i - 1
    ELSE IF pollPc = "cursor" THEN Len(current.resp.FigFamilies)
    ELSE 0

C24_CursorReplacedIffNonEmpty ==
    [][IF pollPc = "cursor" /\ pollPc' # "cursor"
       THEN /\ DOMAIN namespaceCursors' = DOMAIN namespaceCursors
            /\ \A ns \in DOMAIN namespaceCursors :
                  namespaceCursors'[ns] =
                     IF ns = current.ns /\ current.resp.Cursor # ""
                     THEN current.resp.Cursor
                     ELSE namespaceCursors[ns]
       ELSE namespaceCursors' = namespaceCursors]_vars

\* C24 happens: a response with a new cursor and then one with an empty
\* cursor have been handled for a namespace, and the other namespace still
\* has the cursor the client was built with.
C24_Witness ==
    /\ pollPc = "round"
    /\ \E ns \in DOMAIN namespaceCursors :
          /\ namespaceCursors[ns] = "u2"
          /\ \E other \in DOMAIN namespaceCursors \ {ns} : namespaceCursors[other] = "s1"
    /\ \E ns \in DOMAIN namespaceCursors :
          /\ namespaceCursors[ns] = "u2"
          /\ round.cursors[ns] = "u2"
          /\ ns \notin round.todo

\* C25: outside the handling of a response for ns the cursor of ns is the
\* last non-empty cursor a response for ns carried, or the cursor the
\* client was built with; a round snapshots the cursors when it begins and
\* each of its requests carries the snapshot's cursor, which is still the
\* cursor of the namespace; and a cursor is never replaced by an older one.
C25_CursorsFollowTheResponses ==
    [][/\ \A ns \in DOMAIN namespaceCursors :
             \/ pollPc \in {"apply", "cursor"} /\ current.ns = ns
             \/ namespaceCursors[ns] = latestCursor[ns]
       /\ (pollPc = "select" /\ pollPc' = "round") => round'.cursors = namespaceCursors
       /\ (pollPc = "round" /\ pollPc' = "inflight")
          => /\ round'.cursors = round.cursors
             /\ current'.cursor = round.cursors[current'.ns]
             /\ current'.cursor = namespaceCursors[current'.ns]
       /\ \A ns \in DOMAIN namespaceCursors :
             /\ ns \in DOMAIN namespaceCursors'
             /\ CursorRank(namespaceCursors'[ns]) >= CursorRank(namespaceCursors[ns])]_vars

\* C25 happens: a request is in flight that carries a cursor received in
\* an earlier round, in a round in which the other namespace has already
\* moved on to a newer cursor.
C25_Witness ==
    /\ pollPc = "inflight"
    /\ current.cursor = "u1"
    /\ latestCursor[current.ns] = "u1"
    /\ \E other \in DOMAIN namespaceCursors \ {current.ns} :
          namespaceCursors[other] = "u2" /\ round.cursors[other] = "u1"


(***************************************************************************)
(* The bootstrap strategies on their own: one Bootstrap call of a drawn    *)
(* strategy on drawn namespaces and data sources.                          *)
(***************************************************************************)
\* An error value: the pieces of its message and, if it wraps another
\* error (fmt.Errorf with %w), that error as what errors.Unwrap returns.
\* An error formatted with %v contributes its message only.
ErrorValue(message, unwrap) == [message |-> message, unwrap |-> unwrap]

NoErrorValue == ErrorValue(<< >>, << >>)

\* errors.Is(e, target): target is e or is in the chain e wraps.
RECURSIVE ErrorsIs(_, _)
ErrorsIs(e, target) ==
    \/ e = target
    \/ e.unwrap # << >> /\ ErrorsIs(e.unwrap[1], target)

\* What the transport and the vault service fail with.
TransportError == ErrorValue(<<ErrTransport>>, << >>)

LoadBackupError == ErrorValue(<<ErrLoadBackup>>, << >>)

\* fmt.Errorf("failed to fetch initial data for %s: %w", ns, err)
ServerStrategy_Error(namespaces, env) ==
    IF ServerStrategy_Bootstrap(namespaces, env).err = NoError THEN NoErrorValue
    ELSE ErrorValue(<<ErrFetchInitial>> \o TransportError.message, <<TransportError>>)

\* return nil, err
VaultStrategy_Error(namespaces, env) ==
    IF VaultStrategy_Bootstrap(namespaces, env).err = NoError THEN NoErrorValue
    ELSE LoadBackupError

\* fmt.Errorf("server bootstrap failed: %v; fallback to vault also failed: %w",
\*            serverErr, vaultErr)
FallbackStrategy_Error(namespaces, env) ==
    LET serverErr == ServerStrategy_Error(namespaces, env)
        vaultErr == VaultStrategy_Error(namespaces, env)
    IN  IF FallbackStrategy_Bootstrap(namespaces, env).err = NoError THEN NoErrorValue
        ELSE ErrorValue(<<ErrFallback>> \o serverErr.message \o vaultErr.message,
                        <<vaultErr>>)

\* The error value a strategy returns; HybridStrategy returns none.
BootstrapError(strategy, namespaces, env) ==
    CASE strategy = "server" -> ServerStrategy_Error(namespaces, env)
      [] strategy = "vault" -> VaultStrategy_Error(namespaces, env)
      [] strategy = "fallback" -> FallbackStrategy_Error(namespaces, env)
      [] strategy = "hybrid" -> NoErrorValue

Strategies == {"server", "vault", "fallback", "hybrid"}

\* The data sources a strategy can tell apart.
SourcesOf(strategy) ==
    {Environment(TRUE, TRUE, TRUE, i, b, u) :
        i \in IF strategy \in {"server", "fallback", "hybrid"}
              THEN InitialMaps ELSE {AllFetchesFail},
        b \in IF strategy \in {"vault", "fallback", "hybrid"}
              THEN Backups ELSE {BackupFailed},
        u \in IF strategy = "hybrid" THEN UpdateMaps ELSE {AllFetchesFail}}

InitBoot ==
    /\ \E strategy \in Strategies, namespaces \in NamespaceLists :
          \E env \in SourcesOf(strategy) :
             bootIn = [strategy |-> strategy, namespaces |-> namespaces, env |-> env]
    /\ bootOut = [op |-> "none"]
    /\ data = NoValue
    /\ EvalIdle
    /\ StoreIdle
    /\ ClientIdle
    /\ SyncIdle
    /\ CryptoIdle

BootstrapCall ==
    /\ bootOut.op = "none"
    /\ bootOut' =
          [op |-> "Bootstrap",
           result |-> Bootstrap(bootIn.strategy, bootIn.namespaces, bootIn.env),
           error |-> BootstrapError(bootIn.strategy, bootIn.namespaces, bootIn.env)]
    /\ UNCHANGED <<bootIn, data, evalVars, storeVars, clientVars, syncVars, cryptoVars>>

NextBoot == BootstrapCall

SpecBoot == InitBoot /\ [][NextBoot]_vars

\* The calls of one data source in the log of a Bootstrap call, in order.
CallsOf(log, name) == SelectSeq(log, LAMBDA c : c.call = name)

\* The namespaces of a list of calls, in order.
NamespacesOf(log) == [i \in 1..Len(log) |-> log[i].namespace]

Returned(strategy) == bootOut.op = "Bootstrap" /\ bootIn.strategy = strategy


\* The families FetchInitial answers for the namespaces, in order.
RECURSIVE InitialFamilies(_, _)
InitialFamilies(namespaces, env) ==
    IF namespaces = << >> THEN << >>
    ELSE env.initial[Head(namespaces)].FigFamilies \o InitialFamilies(Tail(namespaces), env)

\* C26: ServerStrategy.Bootstrap calls FetchInitial once per requested
\* namespace, in order, up to the first failure; when none fails the
\* result holds all the families returned and a cursor entry, the cursor
\* returned, for every requested namespace; when one fails the result is
\* an error with no families and no cursors.
C26_ServerBootstrapRecordsEveryCursor ==
    Returned("server")
    => LET r == bootOut.result
           ns == bootIn.namespaces
           env == bootIn.env
           fetches == CallsOf(r.calls, "FetchInitial")
           failing == {i \in 1..Len(ns) : env.initial[ns[i]].err # NoError}
       IN  /\ fetches = r.calls
           /\ Len(fetches) <= Len(ns)
           /\ \A i \in 1..Len(fetches) : fetches[i].namespace = ns[i]
           /\ (r.err = NoError) <=> (failing = {})
           /\ r.err = NoError
              => /\ Len(fetches) = Len(ns)
                 /\ r.FigFamilies = InitialFamilies(ns, env)
                 /\ \A n \in Range(ns) :
                       n \in DOMAIN r.Cursors /\ r.Cursors[n] = env.initial[n].Cursor
           /\ r.err # NoError
              => /\ r.FigFamilies = << >>
                 /\ r.Cursors = EmptyMap
                 /\ \E i \in failing : Len(fetches) = i /\ \A j \in failing : i <= j


\* The namespaces of the items of a backup.
ItemNamespaces(payload) ==
    {payload.Items[i].Definition.Namespace : i \in 1..Len(payload.Items)}

\* C27: VaultStrategy.Bootstrap calls LoadBackup once; when that succeeds
\* its cursor map assigns the backup's sync token, whatever it is, to every
\* requested namespace and to every namespace of an item of the backup,
\* and to nothing else; when LoadBackup fails it returns that error and no
\* result.
C27_VaultBootstrapAssignsTheSyncToken ==
    Returned("vault")
    => LET r == bootOut.result
           payload == bootIn.env.backup
       IN  /\ Len(r.calls) = 1
           /\ r.calls[1].call = "LoadBackup"
           /\ r.err = payload.err
           /\ payload.err = NoError
              => /\ DOMAIN r.Cursors = Range(bootIn.namespaces) \cup ItemNamespaces(payload)
                 /\ \A n \in Range(bootIn.namespaces) \cup ItemNamespaces(payload) :
                       n \in DOMAIN r.Cursors /\ r.Cursors[n] = payload.SyncToken
           /\ payload.err # NoError
              => /\ r.FigFamilies = << >>
                 /\ r.Cursors = EmptyMap


\* The positions in the backup of the items of a requested namespace.
RequestedItems(payload, namespaces) ==
    {i \in 1..Len(payload.Items) :
        payload.Items[i].Definition.Namespace \in Range(namespaces)}

C29_FallbackPreservesTheServerCause ==
    Returned("fallback")
    => LET r == bootOut.result
           server == ServerStrategy_Bootstrap(bootIn.namespaces, bootIn.env)
           vault == VaultStrategy_Bootstrap(bootIn.namespaces, bootIn.env)
       IN  /\ server.err = NoError
              => /\ r.err = NoError
                 /\ r.FigFamilies = server.FigFamilies
                 /\ r.Cursors = server.Cursors
                 /\ r.calls = server.calls
                 /\ CallsOf(r.calls, "LoadBackup") = << >>
           /\ server.err # NoError
              => /\ r.calls = server.calls \o vault.calls
                 /\ Len(CallsOf(r.calls, "LoadBackup")) = 1
                 /\ r.err = NoError <=> vault.err = NoError
           /\ (server.err # NoError /\ vault.err = NoError)
              => /\ r.FigFamilies = vault.FigFamilies
                 /\ r.Cursors = vault.Cursors
           /\ (server.err # NoError /\ vault.err # NoError)
              => /\ r.FigFamilies = << >>
                 /\ r.Cursors = EmptyMap
                 /\ ErrorsIs(bootOut.error,
                             ServerStrategy_Error(bootIn.namespaces, bootIn.env))


\* The cursors HybridStrategy.Bootstrap takes from the vault: none when the
\* vault strategy fails.
VaultCursors ==
    LET vault == VaultStrategy_Bootstrap(bootIn.namespaces, bootIn.env)
    IN  IF vault.err # NoError THEN EmptyMap ELSE vault.Cursors

\* The requested namespaces with (TRUE) or without (FALSE) a vault cursor,
\* in the order requested.
RequestedInVault(inVault) ==
    SelectSeq(bootIn.namespaces, LAMBDA ns : (ns \in DOMAIN VaultCursors) = inVault)

\* C30: HybridStrategy.Bootstrap calls the vault strategy once and goes on
\* when it fails; it then calls the server strategy once, with the
\* requested namespaces that have no vault cursor, if there are any, and
\* not at all otherwise; and then issues one catch-up FetchUpdate, with the
\* vault cursor, for each requested namespace that has one, and none for a
\* namespace it has just fetched from the server.
C30_HybridFetchesMissingAndCatchesUpTheRest ==
    Returned("hybrid")
    => LET r == bootOut.result
           missing == RequestedInVault(FALSE)
           fetches == CallsOf(r.calls, "FetchInitial")
           catchups == CallsOf(r.calls, "FetchUpdate")
       IN  /\ r.err = NoError
           /\ r.calls = CallsOf(r.calls, "LoadBackup") \o fetches \o catchups
           /\ Len(CallsOf(r.calls, "LoadBackup")) = 1
           /\ fetches = ServerStrategy_Bootstrap(missing, bootIn.env).calls
           /\ missing = << >> => fetches = << >>
           /\ NamespacesOf(catchups) = RequestedInVault(TRUE)
           /\ \A i \in 1..Len(catchups) :
                 catchups[i].cursor = VaultCursors[catchups[i].namespace]
           /\ Range(NamespacesOf(fetches)) \cap Range(NamespacesOf(catchups)) = {}

\* C30 happens: of two requested namespaces one had a vault cursor and was
\* caught up, the other had none and was fetched from the server.
C30_Witness ==
    /\ Returned("hybrid")
    /\ Len(bootIn.namespaces) = 2
    /\ Len(CallsOf(bootOut.result.calls, "FetchInitial")) = 1
    /\ Len(CallsOf(bootOut.result.calls, "FetchUpdate")) = 1
    /\ CallsOf(bootOut.result.calls, "FetchInitial")[1].ok


\* The families the catch-up requests of a Bootstrap call brought, in the
\* order of the requests; a failed request brings none.
RECURSIVE CatchUpFamilies(_, _)
CatchUpFamilies(catchups, env) ==
    IF catchups = << >> THEN << >>
    ELSE (IF Head(catchups).ok THEN env.update[Head(catchups).namespace].FigFamilies
          ELSE << >>)
         \o CatchUpFamilies(Tail(catchups), env)

\* The families HybridStrategy.Bootstrap takes from the vault: none when
\* the vault strategy fails.
VaultFamilies ==
    LET vault == VaultStrategy_Bootstrap(bootIn.namespaces, bootIn.env)
    IN  IF vault.err # NoError THEN << >> ELSE vault.FigFamilies

C32_CatchUpSupersedesTheVault ==
    Returned("hybrid")
    => LET r == bootOut.result
           env == bootIn.env
           catchups == CallsOf(r.calls, "FetchUpdate")
           store == PutEach(EmptyMap, r.FigFamilies)
           cursors == MapCopy(EmptyMap, r.Cursors)
       IN  /\ Range(NamespacesOf(catchups)) = Range(bootIn.namespaces) \cap DOMAIN VaultCursors
           /\ \A i \in 1..Len(catchups) :
                 LET ns == catchups[i].namespace
                     resp == env.update[ns]
                 IN  /\ catchups[i].cursor = VaultCursors[ns]
                     /\ catchups[i].ok = (resp.err = NoError)
                     /\ catchups[i].ok
                        => /\ \A j \in 1..Len(resp.FigFamilies) :
                                 LET ff == resp.FigFamilies[j]
                                 IN  Get(store, ff.Definition.Namespace, ff.Definition.Key)
                                        = [family |-> <<ff>>, ok |-> TRUE]
                           /\ cursors[ns] = IF resp.Cursor # "" THEN resp.Cursor
                                            ELSE VaultCursors[ns]

\* C32 happens: the vault held a family of a namespace, the catch-up of
\* that namespace returned another version of it and a cursor, and a second
\* namespace, missing from the vault, was fetched from the server.
C32_Witness ==
    /\ Returned("hybrid")
    /\ LET r == bootOut.result
           catchups == CallsOf(r.calls, "FetchUpdate")
           fetches == CallsOf(r.calls, "FetchInitial")
       IN  /\ Len(catchups) = 1
           /\ catchups[1].ok
           /\ Len(fetches) = 1
           /\ fetches[1].ok
           /\ bootIn.env.initial[fetches[1].namespace].FigFamilies # << >>
           /\ LET ns == catchups[1].namespace
                  resp == bootIn.env.update[ns]
              IN  /\ resp.Cursor # ""
                  /\ resp.FigFamilies # << >>
                  /\ \E i \in 1..Len(VaultFamilies) :
                        /\ VaultFamilies[i].Definition = resp.FigFamilies[1].Definition
                        /\ VaultFamilies[i] # resp.FigFamilies[1]
                  /\ Len(r.FigFamilies) = 3
                  /\ DOMAIN PutEach(EmptyMap, r.FigFamilies)
                        = {makeKey(ns, "c"), makeKey(fetches[1].namespace, "c")}


(***************************************************************************)
(* encryption.Service: Decrypt and the namespace key (NSK) cache.          *)
(***************************************************************************)
ErrNoKeys == "no keys found for namespace"
ErrAmbiguousKeys == "namespace has several keys but fig has no keyId specified"
ErrNoMatchingKey == "no matching key found for namespace and keyId"
ErrDecodeNsk == "decode nsk"
ErrDecryptNsk == "decrypt nsk"
ErrMissingWrappedDek == "missing wrapped dek"
ErrUnwrapDek == "unwrap dek"

\* model.NamespaceKey
NamespaceKey(keyID, wrappedKey) == [KeyID |-> keyID, WrappedKey |-> wrappedKey]

\* NamespaceKey.WrappedKey: the base64 text of the RSA-OAEP encryption of an
\* NSK for the client's key; text that is not base64; base64 text that the
\* client's private key does not decrypt.
WrappedNsk(nsk) == [kind |-> "wrapped", nsk |-> nsk]

NotBase64 == [kind |-> "notBase64"]

ForeignKey == [kind |-> "foreign"]

\* Fig.WrappedDek: the RFC 3394 wrap of a DEK under an NSK; << >> is empty
WrappedDek(nsk) == <<[nsk |-> nsk]>>

\* an encrypted model.Fig; keyID is << >> for a nil Fig.KeyID
EncryptedFig(keyID, wrappedDek) ==
    [Version |-> "v2", Payload |-> Cipher("p2"), IsEncrypted |-> TRUE,
     KeyID |-> keyID, WrappedDek |-> wrappedDek]

\* what Transport.GetNamespaceKey returns
KeyResponse(err, nsKeys) == [err |-> err, nsKeys |-> nsKeys]

\* the loop of getNSK over nsKeys: the first key the fig's keyID selects,
\* << >> for a nil matchingKey
firstMatchingKey(nsKeys, keyID) ==
    LET matches(k) == \/ keyID = "" /\ k.KeyID = ""
                      \/ keyID # "" /\ k.KeyID = keyID
        hits == {i \in 1..Len(nsKeys) : matches(nsKeys[i])}
    IN  IF hits = {} THEN << >>
        ELSE <<nsKeys[CHOOSE i \in hits : \A j \in hits : i <= j]>>

\* What getNSK returns: the error or the NSK, the cache it leaves, and
\* whether it has called GetNamespaceKey.
NskResult(err, nsk, cache, called) ==
    [err |-> err, nsk |-> nsk, nskCache |-> cache, called |-> called]

\* resp is what GetNamespaceKey(ctx, namespace) returns if it is called
getNSK(cache, namespace, keyID, resp) ==
    IF keyID # "" /\ keyID \in DOMAIN cache
    THEN NskResult(NoError, <<cache[keyID]>>, cache, FALSE)
    ELSE IF resp.err # NoError THEN NskResult(resp.err, << >>, cache, TRUE)
    ELSE LET nsKeys == resp.nsKeys
             found == firstMatchingKey(nsKeys, keyID)
             matchingKey ==
                 IF found # << >> THEN found
                 ELSE IF keyID = "" /\ Len(nsKeys) = 1 THEN <<nsKeys[1]>>
                 ELSE << >>
         IN  IF matchingKey = << >>
             THEN NskResult(IF keyID # "" THEN ErrNoMatchingKey
                            ELSE IF Len(nsKeys) > 1 THEN ErrAmbiguousKeys
                            ELSE ErrNoKeys,
                            << >>, cache, TRUE)
             ELSE LET k == matchingKey[1]
                  IN  IF k.WrappedKey.kind = "notBase64"
                      THEN NskResult(ErrDecodeNsk, << >>, cache, TRUE)
                      ELSE IF k.WrappedKey.kind # "wrapped"
                           THEN NskResult(ErrDecryptNsk, << >>, cache, TRUE)
                      ELSE NskResult(NoError, <<k.WrappedKey.nsk>>,
                                     IF k.KeyID # ""
                                     THEN MapPut(cache, k.KeyID, k.WrappedKey.nsk)
                                     ELSE cache,
                                     TRUE)

\* What Decrypt returns, with the NSK it used and the getNSK result as
\* history.
DecryptResult(err, payload, resolved) ==
    [err |-> err, payload |-> payload, nsk |-> resolved.nsk,
     nskErr |-> resolved.err, nskCache |-> resolved.nskCache, called |-> resolved.called]

Service_Decrypt(cache, fig, namespace, resp) ==
    IF ~fig.IsEncrypted
    THEN DecryptResult(NoError, <<fig.Payload>>, NskResult(NoError, << >>, cache, FALSE))
    ELSE LET keyID == IF fig.KeyID # << >> THEN fig.KeyID[1] ELSE ""
             resolved == getNSK(cache, namespace, keyID, resp)
         IN  IF resolved.err # NoError THEN DecryptResult(resolved.err, << >>, resolved)
             ELSE IF Len(fig.WrappedDek) = 0
                  THEN DecryptResult(ErrMissingWrappedDek, << >>, resolved)
             ELSE IF fig.WrappedDek[1].nsk # resolved.nsk[1]
                  THEN DecryptResult(ErrUnwrapDek, << >>, resolved)
             ELSE DecryptResult(NoError, <<Plain(fig.Payload.of)>>, resolved)

\* The key identifiers, the namespace keys and the key lists of the server.
KeyIDs == {"", "k1"}

NamespaceKeys == {"n1", "n2"}

ServedKeys ==
    {NamespaceKey(id, WrappedNsk(nsk)) : id \in KeyIDs, nsk \in NamespaceKeys}
    \cup {NamespaceKey("k1", NotBase64), NamespaceKey("", ForeignKey)}

KeyResponses ==
    {KeyResponse(ErrTransport, << >>), KeyResponse(NoError, << >>)}
    \cup {KeyResponse(NoError, <<k>>) : k \in ServedKeys}
    \cup {KeyResponse(NoError, <<k1, k2>>) : k1, k2 \in ServedKeys}

CryptoFigs ==
    {Fig("v1", Plain("p1"), FALSE)}
    \cup {EncryptedFig(id, dek) : id \in {<< >>, <<"k1">>},
                                  dek \in {<< >>, WrappedDek("n1")}}

\* The NSKs of the keys of a response.
NsksOf(resp) ==
    {resp.nsKeys[i].WrappedKey.nsk :
        i \in {j \in 1..Len(resp.nsKeys) : resp.nsKeys[j].WrappedKey.kind = "wrapped"}}

\* NewService: the cache is empty
InitCrypto ==
    /\ nskCache = EmptyMap
    /\ keysServed = [ns \in ClientNamespaces |-> {}]
    /\ decryptOut = [op |-> "none"]
    /\ data = NoValue
    /\ EvalIdle
    /\ StoreIdle
    /\ ClientIdle
    /\ SyncIdle
    /\ BootIdle

DecryptCall ==
    \E namespace \in ClientNamespaces, fig \in CryptoFigs, resp \in KeyResponses :
       LET r == Service_Decrypt(nskCache, fig, namespace, resp)
       IN  /\ nskCache' = r.nskCache
           /\ keysServed' =
                 IF r.called /\ resp.err = NoError
                 THEN [keysServed EXCEPT ![namespace] = @ \cup NsksOf(resp)]
                 ELSE keysServed
           /\ decryptOut' = [op |-> "Decrypt", namespace |-> namespace, fig |-> fig,
                             resp |-> resp, cacheBefore |-> nskCache, result |-> r]
           /\ UNCHANGED <<data, evalVars, storeVars, clientVars, syncVars, bootVars>>

NextCrypto == DecryptCall

SpecCrypto == InitCrypto /\ [][NextCrypto]_vars


\* The last Decrypt call was for an encrypted fig and getNSK has asked the
\* server, which answered with a key list.
Resolved ==
    /\ decryptOut.op = "Decrypt"
    /\ decryptOut.fig.IsEncrypted
    /\ decryptOut.result.called
    /\ decryptOut.resp.err = NoError

\* The keyId of the fig of the last Decrypt call, "" when it has none.
FigKeyID == IF decryptOut.fig.KeyID # << >> THEN decryptOut.fig.KeyID[1] ELSE ""

\* The NSK a served key unwraps to, << >> when it does not unwrap.
NskOf(k) == IF k.WrappedKey.kind = "wrapped" THEN <<k.WrappedKey.nsk>> ELSE << >>

\* C33: the resolution of the namespace key never guesses: when the fig
\* has a keyId only a returned key with that keyId is used, and the
\* resolution fails when there is none; when the fig has no keyId a key is
\* used iff exactly one key was returned: no key fails with "no keys
\* found", and more than one key always fails as ambiguous.
C33_KeyResolutionNeverGuesses ==
    Resolved
    => LET nsKeys == decryptOut.resp.nsKeys
           r == decryptOut.result
           withId == {i \in 1..Len(nsKeys) : nsKeys[i].KeyID = FigKeyID}
       IN  /\ FigKeyID # ""
              => /\ withId = {} => r.nskErr = ErrNoMatchingKey
                 /\ r.nskErr = NoError => \E i \in withId : r.nsk = NskOf(nsKeys[i])
           /\ FigKeyID = ""
              => /\ Len(nsKeys) = 0 => r.nskErr = ErrNoKeys
                 /\ Len(nsKeys) > 1 => r.nskErr = ErrAmbiguousKeys
                 /\ (Len(nsKeys) = 1 /\ r.nskErr = NoError) => r.nsk = NskOf(nsKeys[1])
                 /\ r.nskErr = NoError => Len(nsKeys) = 1


\* C34: the NSK cache: when the fig has a keyId and an NSK is cached under
\* it, Decrypt uses the cached NSK and does not call GetNamespaceKey; an
\* NSK resolved from the server is stored under the keyId of its key iff
\* that keyId is not empty; a resolution that fails stores nothing; and an
\* entry of the cache is never removed nor replaced by another value.
C34_CacheEntriesAreStable ==
    (decryptOut.op = "Decrypt" /\ decryptOut.fig.IsEncrypted)
    => LET before == decryptOut.cacheBefore
           r == decryptOut.result
       IN  /\ (FigKeyID # "" /\ FigKeyID \in DOMAIN before)
              => /\ ~r.called
                 /\ r.nskErr = NoError
                 /\ r.nsk = <<before[FigKeyID]>>
           /\ (r.called /\ r.nskErr = NoError)
              => \E i \in 1..Len(decryptOut.resp.nsKeys) :
                    LET k == decryptOut.resp.nsKeys[i]
                    IN  /\ r.nsk = NskOf(k)
                        /\ k.KeyID # "" => (k.KeyID \in DOMAIN nskCache
                                            /\ nskCache[k.KeyID] = r.nsk[1])
                        /\ k.KeyID = "" => nskCache = before
           /\ r.nskErr # NoError => nskCache = before
           /\ \A id \in DOMAIN before : id \in DOMAIN nskCache /\ nskCache[id] = before[id]

\* C40: the NSK used to decrypt a fig of a namespace is always derived
\* from a key GetNamespaceKey returned for that namespace: an NSK cached
\* while decrypting a fig of another namespace is never used for it, even
\* when both namespaces use the same keyId.
C40_NskComesFromTheNamespace ==
    (decryptOut.op = "Decrypt" /\ decryptOut.fig.IsEncrypted
        /\ decryptOut.result.nskErr = NoError)
    => decryptOut.result.nsk[1] \in keysServed[decryptOut.namespace]


\* The (namespace, key) pairs of the store harness.
StorePairs == StoreNamespaces \X StoreKeys

\* C35: the entries of the store for distinct (namespace, key) pairs are
\* independent: a Put for one pair never changes what Get returns for any
\* other pair, whatever the namespace and key strings are, strings with
\* ':' included.
C35_PutLeavesOtherPairsAlone ==
    [][puts' # puts
       => \E put \in StorePairs :
             /\ put \in DOMAIN lastPut'
             /\ data' = Put(data, lastPut'[put])
             /\ lastPut'[put].Definition.Namespace = put[1]
             /\ lastPut'[put].Definition.Key = put[2]
             /\ \A other \in StorePairs \ {put} :
                   Get(data', other[1], other[2]) = Get(data, other[1], other[2])]_vars


\* C36: the engine polls configured namespaces only: the namespaces of the
\* cursor map, which are the namespaces pollUpdates sends a FetchUpdate
\* for, are all configured namespaces, whichever bootstrap strategy filled
\* the map and whatever the backup of the vault holds.
C36_CursorsOfConfiguredNamespacesOnly ==
    (newOut.op = "New" /\ newOut.client)
    => DOMAIN namespaceCursors \subseteq Range(cfg.Namespaces)


\* Clients with no namespace configured, and with one.
IdleConfigs ==
    {Config(DefaultBaseURL, "env-1", "secret", "", namespaces, FALSE, "server", "") :
        namespaces \in {<< >>, <<"a">>}}

InitIdle == InitClient(IdleConfigs, {"u1"})

SpecIdle == InitIdle /\ [][NextPoll]_vars

\* C37: the polling goroutine never spins: by the time a round of
\* pollUpdates ends, the goroutine has sent at least one FetchUpdate, one
\* for each namespace of the round's cursor snapshot, or has slept, since
\* the round began; also when the cursor map is empty.
C37_EveryRoundRequestsOrSleeps ==
    [][(pollPc = "round" /\ pollPc' = "select")
       => (DOMAIN round.cursors # {} \/ sinceRound = "waited")]_vars


\* C38: once Close has been called the engine starts no new FetchUpdate:
\* at most the request that was in flight completes, and the namespaces
\* left in the current round are not polled.
C38_NoNewRequestAfterClose ==
    [][closeCh = "closed" => ~(pollPc # "inflight" /\ pollPc' = "inflight")]_vars


\* Whether the channel of s can be sent on: it was made and is not closed.
Open(s) == chans[s].state \in {"live", "cancelled"}

\* C39: under every interleaving of Watch registration, cancellation and
\* update application the engine never sends on a closed channel and never
\* notifies a deregistered subscription: a channel in the watcher lists is
\* open, a send goes to a registered open channel and happens under the
\* lock of the fan-out, and the deregistration with its close, like the
\* registration, happens only while no fan-out holds the lock, so that the
\* fan-out of one response sees one watcher list.
C39_FanOutAndCleanupExcludeEachOther ==
    [][\A s \in Subscribers :
          /\ Registered(s)' => Open(s)'
          /\ Len(chans'[s].buf) > Len(chans[s].buf)
             => (Registered(s) /\ Open(s) /\ mu = "poll" /\ pollPc = "apply")
          /\ (Registered(s) /\ ~Registered(s)')
             => (mu = "free" /\ mu' = "free" /\ chans'[s].state = "closed")
          /\ (chans[s].state # "closed" /\ chans'[s].state = "closed")
             => (mu = "free" /\ mu' = "free" /\ Registered(s) /\ ~Registered(s)')
          /\ (mu = "poll" \/ mu' = "poll")
             => /\ watchers' = watchers
                /\ (chans'[s].state = "closed") = (chans[s].state = "closed")]_vars

\* C39 happens: in the middle of the fan-out of a response a registered
\* subscriber that was just notified is cancelled and waits for the lock,
\* while another subscription has been deregistered and closed.
C39_Witness ==
    /\ pollPc = "apply"
    /\ mu = "poll"
    /\ current.i > 1
    /\ \E s, t \in Subscribers :
          /\ chans[s].state = "cancelled"
          /\ Registered(s)
          /\ chans[s].buf # << >>
          /\ chans[s].buf[1].put = Len(applied)
          /\ chans[t].state = "closed"
          /\ ~Registered(t)

=============================================================================
